---- MODULE Spec2Model ----
(***************************************************************************)
(* Model of the credit-metered request pipeline of the gateway: the        *)
(* credits ledger (credits repository and service), the redeemable credit  *)
(* tokens, the API keys, the auto-provisioning of accounts and the metered *)
(* operation handlers.  Every store round trip (one MongoDB call) is one   *)
(* step of the calling goroutine, so that the interleavings of concurrent  *)
(* requests are those the server can produce.  Every store call can fail   *)
(* with a driver error (the `err != nil` branches of the repositories).    *)
(***************************************************************************)
EXTENDS Integers, Sequences, FiniteSets, TLC

(***************************************************************************)
(* Bounds of the model.                                                    *)
(***************************************************************************)
NProcs == 2            \* requests (goroutines) of one behaviour
MaxAmt == 2            \* largest amount of an AddCredits / DeductCredits request
MaxBal == 3            \* AddCredits requests are issued only below this balance
MaxTokens == 1         \* credit tokens that can be generated
MaxTokCredits == 2     \* largest credits value of a generated token
MaxWords == 3          \* longest technical message, in words and blanks

Procs == 1..NProcs
Tokens == 1..MaxTokens

(***************************************************************************)
(* Identities.  Auto-provisioning uses the e-mail as the user id, so one   *)
(* set serves for both; "" is the empty string of a request field.         *)
(***************************************************************************)
Ids == {"a", "b"}
EmptyId == ""

\* error types of pkg/errors and the other outcomes of a service call
ErrValidation == "VALIDATION_ERROR"
ErrCreditsNotFound == "CREDITS_NOT_FOUND"
ErrInsufficientCredits == "INSUFFICIENT_CREDITS"
ErrNotFound == "NOT_FOUND"
ErrUserNotFound == "USER_NOT_FOUND"
ErrUserAlreadyExists == "USER_ALREADY_EXISTS"
ErrInternalServer == "INTERNAL_SERVER_ERROR"
ErrStore == "STORE_ERROR"            \* a driver error returned as is
ErrForbidden == "FORBIDDEN"
ErrBadRequest == "BAD_REQUEST"
ErrTokenUsed == "token has already been used"
ErrTokenExpired == "token has expired"
Ok == "OK"
Pending == "pending"

VARIABLES
    users,          \* users collection: sequence of documents [userId, email]
    credits,        \* credits collection: sequence of documents [userId, credits]
    tokens,         \* credit_tokens collection: token -> document
    pc,             \* position of each goroutine
    loc,            \* frame of the service call a goroutine is in
    granted,        \* history: credits added to balances from each token
    attempts,       \* history: number of RedeemToken calls issued per token
    calls,          \* number of requests issued so far
    race,           \* the balance and the amount of a race of equal debits
    faults,         \* whether store calls can fail in this behaviour
    apiKeys,        \* api_keys collection: set of documents (no unique index)
    req,            \* locals of the handler a goroutine is in
    usage,          \* usage tracking requests emitted so far, in order
    tr              \* a technical message and what MapError made of it

vars == <<users, credits, tokens, pc, loc, granted, attempts, calls, race,
          faults, apiKeys, req, usage, tr>>

\* the variables of the other components, which the ledger leaves alone
keyVars == <<apiKeys>>
env == <<race, faults, tr>>
tokVars == <<tokens, granted, attempts>>
meterVars == <<req, usage>>

NoToken == [exists |-> FALSE, credits |-> 0, createdBy |-> EmptyId,
            isUsed |-> FALSE, usedBy |-> EmptyId, expired |-> FALSE]

\* what an Authorization header carries: whether it is there, the token after
\* "Bearer ", and for a signed token whether signature and issuer verify, its
\* e-mail claim and whether its roles make an admin
Credential(header, token, signed, email, admin) ==
    [header |-> header, token |-> token, signed |-> signed, email |-> email,
     admin |-> admin]

NoCredential == Credential(FALSE, <<>>, FALSE, EmptyId, FALSE)

\* the frame of a call before it has read or written anything
Frame(op, u, a, t, ret) ==
    [op |-> op, user |-> u, amt |-> a, tok |-> t, ret |-> ret,
     cur |-> 0, res |-> Pending, bal |-> 0, solo |-> TRUE, bal0 |-> 0, nth |-> 0,
     exp |-> "never", act |-> "nil", named |-> TRUE, swallowed |-> FALSE,
     key |-> <<>>]

IdleFrame == Frame("none", EmptyId, 0, 0, "done")

\* the locals of a handler: the service it serves, the e-mail of the caller,
\* whether the caller had no account when the request came in, the outcome of
\* the auto-provisioning and the HTTP status of the response; for a metered
\* request also the credential, whether its context is cancelled, how
\* the upstream call ended, the outcome of its
\* DeductCredits and what that took, the kind of body of the response, and
\* the upstream call, debits and tracking calls in the order they happened
Req(svc, email, fresh) ==
    [svc |-> svc, email |-> email, fresh |-> fresh, prov |-> "none", status |-> 0,
     auth |-> "bearer", cancelled |-> FALSE, reply |-> "none",
     settle |-> "none", paid |-> 0, body |-> "none", ev |-> <<>>,
     admin |-> FALSE, cred |-> NoCredential]

IdleReq == Req("none", EmptyId, FALSE)

AtRest(p) == pc[p] \in {"idle", "done"}
InFlight(p) == ~AtRest(p)

\* p issues a request, its one request; the goroutines are taken in order.
\* The request is alone iff nobody else is in flight, and every request in
\* flight has company from now on
Enter(p, frame, label) ==
    /\ pc[p] = "idle"
    /\ \A q \in Procs : q < p => pc[q] # "idle"
    /\ calls' = calls + 1
    /\ pc' = [pc EXCEPT ![p] = label]
    /\ loc' = [q \in Procs |->
                 IF q = p THEN [frame EXCEPT !.solo = \A r \in Procs \ {p} : AtRest(r)]
                 ELSE IF InFlight(q) THEN [loc[q] EXCEPT !.solo = FALSE]
                 ELSE loc[q]]

\* the call of p returns res (and the balance bal of its response) to its
\* caller; the values it had read are dead from here on
Return(p, res, bal) ==
    /\ pc' = [pc EXCEPT ![p] = loc[p].ret]
    /\ loc' = [loc EXCEPT ![p].res = res, ![p].bal = bal, ![p].cur = 0, ![p].bal0 = 0]

\* a store call of p fails with a driver error, which the service returns
StoreFails(p) == faults /\ Return(p, ErrStore, 0)

(***************************************************************************)
(* Credits repository.                                                     *)
(***************************************************************************)
\* the documents of the users and the credits collections
User(u, e) == [userId |-> u, email |-> e]
UserDoc(u) == User(u, u)
CreditsDoc(u, b) == [userId |-> u, credits |-> b]

\* the positions of the documents of user u, and the one FindOne / UpdateOne
\* selects (the first in natural order), 0 when there is none
CreditsDocs(u) == {i \in 1..Len(credits) : credits[i].userId = u}

FindCredits(u) ==
    IF CreditsDocs(u) = {} THEN 0
    ELSE CHOOSE i \in CreditsDocs(u) : \A j \in CreditsDocs(u) : i <= j

\* creditsRepository.GetByUserID: the error, or "" and the balance
GetByUserID(u) ==
    IF FindCredits(u) = 0
    THEN [err |-> ErrCreditsNotFound, credits |-> 0]
    ELSE [err |-> "", credits |-> credits[FindCredits(u)].credits]

\* creditsRepository.UpdateCredits: MatchedCount = 0 when there is no document
UpdateCreditsErr(u) ==
    IF FindCredits(u) = 0 THEN ErrCreditsNotFound ELSE ""

\* an UpdateCredits that writes the amount with $set instead of $inc
UpdateCreditsSets(u, amount) ==
    [credits EXCEPT ![FindCredits(u)].credits = amount]

\* creditsRepository.UpdateCredits: $inc of the balance of the document
UpdateCredits(u, amount) ==
    [credits EXCEPT ![FindCredits(u)].credits = @ + amount]

\* the balance test with the comparison off by one
InsufficientOffByOne(cur, amount) == cur <= amount

\* the balance test of creditsRepository.DeductCredits
Insufficient(cur, amount) == cur < amount

\* AddCreditsRequest.Validate and DeductCreditsRequest.Validate
ValidateAmountRequest(u, amount) == u # EmptyId /\ amount > 0

\* the request bodies of /credits/add and /credits/deduct that are tried: every
\* amount for the account "a", one for "b", one without a user id and one
\* without a positive amount
AmountRequests ==
    ({"a"} \X (1..MaxAmt)) \cup {<<"b", 1>>, <<EmptyId, 1>>, <<"a", 0>>}

(***************************************************************************)
(* creditsService.DeductCredits, called from the /credits/deduct handler   *)
(* (ret = "done") and from the metered handlers.                           *)
(***************************************************************************)
StartDeductOf(p, requests) ==
    \E rq \in requests :
        /\ Enter(p, [Frame("Deduct", rq[1], rq[2], 0, "done")
                        EXCEPT !.bal0 = GetByUserID(rq[1]).credits], "ded_svc_get")
        /\ UNCHANGED <<users, credits, tokens, granted, attempts, env, keyVars, meterVars>>

StartDeduct(p) == StartDeductOf(p, AmountRequests)

\* Validate, then the service's own read of the balance
DeductSvcGet(p) ==
    /\ pc[p] = "ded_svc_get"
    /\ \/ /\ ~ValidateAmountRequest(loc[p].user, loc[p].amt)
          /\ Return(p, ErrValidation, 0)
       \/ /\ ValidateAmountRequest(loc[p].user, loc[p].amt)
          /\ \/ StoreFails(p)
             \/ LET r == GetByUserID(loc[p].user) IN
                IF r.err # "" THEN Return(p, r.err, 0)
                ELSE /\ pc' = [pc EXCEPT ![p] = "ded_repo_get"]
                     /\ loc' = [loc EXCEPT ![p].cur = r.credits]
    /\ UNCHANGED <<users, credits, tokens, granted, attempts, calls, env, keyVars, meterVars>>

\* creditsRepository.DeductCredits: read the balance and test it
DeductRepoGet(p) ==
    /\ pc[p] = "ded_repo_get"
    /\ \/ StoreFails(p)
       \/ LET r == GetByUserID(loc[p].user) IN
          IF r.err # "" THEN Return(p, r.err, 0)
          ELSE IF Insufficient(r.credits, loc[p].amt)
               THEN Return(p, ErrInsufficientCredits, 0)
               ELSE /\ pc' = [pc EXCEPT ![p] = "ded_update"]
                    /\ UNCHANGED loc
    /\ UNCHANGED <<users, credits, tokens, granted, attempts, calls, env, keyVars, meterVars>>

\* creditsRepository.DeductCredits: UpdateCredits(-amount); the service
\* answers with the balance it read first minus the amount
DeductUpdate(p) ==
    /\ pc[p] = "ded_update"
    /\ \/ /\ StoreFails(p)
          /\ UNCHANGED credits
       \/ IF UpdateCreditsErr(loc[p].user) # ""
          THEN /\ Return(p, UpdateCreditsErr(loc[p].user), 0)
               /\ UNCHANGED credits
          ELSE /\ credits' = UpdateCredits(loc[p].user, -loc[p].amt)
               /\ Return(p, Ok, loc[p].cur - loc[p].amt)
    /\ UNCHANGED <<users, tokens, granted, attempts, calls, env, keyVars, meterVars>>

\* one of NProcs equal debits of race.amt against the balance race.bal
StartRaceDeduct(p) ==
    /\ pc[p] = "idle"
    /\ Enter(p, [Frame("Deduct", "a", race.amt, 0, "done")
                    EXCEPT !.bal0 = GetByUserID("a").credits], "ded_svc_get")
    /\ UNCHANGED <<users, credits, tokens, granted, attempts, env, keyVars, meterVars>>

(***************************************************************************)
(* creditsService.AddCredits (admin route /credits/add).                   *)
(***************************************************************************)
StartAddOf(p, requests, top) ==
    \E rq \in requests :
        /\ GetByUserID(rq[1]).credits < top
        /\ Enter(p, Frame("Add", rq[1], rq[2], 0, "done"), "add_svc_get")
        /\ UNCHANGED <<users, credits, tokens, granted, attempts, env, keyVars, meterVars>>

\* the requests that are tried while the balance is below the cap MaxBal
StartAdd(p) == StartAddOf(p, AmountRequests, MaxBal)

AddSvcGet(p) ==
    /\ pc[p] = "add_svc_get"
    /\ \/ /\ ~ValidateAmountRequest(loc[p].user, loc[p].amt)
          /\ Return(p, ErrValidation, 0)
       \/ /\ ValidateAmountRequest(loc[p].user, loc[p].amt)
          /\ \/ StoreFails(p)
             \/ LET r == GetByUserID(loc[p].user) IN
                IF r.err # "" THEN Return(p, r.err, 0)
                ELSE /\ pc' = [pc EXCEPT ![p] = "add_update"]
                     /\ loc' = [loc EXCEPT ![p].cur = r.credits]
    /\ UNCHANGED <<users, credits, tokens, granted, attempts, calls, env, keyVars, meterVars>>

AddUpdate(p) ==
    /\ pc[p] = "add_update"
    /\ \/ /\ StoreFails(p)
          /\ UNCHANGED credits
       \/ IF UpdateCreditsErr(loc[p].user) # ""
          THEN /\ Return(p, UpdateCreditsErr(loc[p].user), 0)
               /\ UNCHANGED credits
          ELSE /\ credits' = UpdateCredits(loc[p].user, loc[p].amt)
               /\ Return(p, Ok, loc[p].cur + loc[p].amt)
    /\ UNCHANGED <<users, tokens, granted, attempts, calls, env, keyVars, meterVars>>

(***************************************************************************)
(* creditTokenService.RedeemToken over the token repository.               *)
(***************************************************************************)
\* tokenRepository.GetByToken
GetByToken(t) ==
    IF t \in Tokens /\ tokens[t].exists
    THEN [err |-> "", token |-> tokens[t]]
    ELSE [err |-> ErrNotFound, token |-> NoToken]

\* RedeemToken without its isUsed test
RedeemRefusalNoUsedTest(token) ==
    IF token.expired THEN ErrTokenExpired ELSE ""

\* the two refusals of RedeemToken, in the order of the code
RedeemRefusal(token) ==
    IF token.isUsed THEN ErrTokenUsed
    ELSE IF token.expired THEN ErrTokenExpired
    ELSE ""

\* tokenRepository.MarkAsUsed: $set on the document with this token
MarkAsUsed(t, u) == [tokens EXCEPT ![t].isUsed = TRUE, ![t].usedBy = u]

StartRedeemOf(p, redeemers) ==
    \E t \in Tokens, u \in redeemers :
        /\ Enter(p, [Frame("Redeem", u, 0, t, "done")
                        EXCEPT !.nth = attempts[t] + 1], "red_get_token")
        /\ attempts' = [attempts EXCEPT ![t] = @ + 1]
        /\ UNCHANGED <<users, credits, tokens, granted, env, keyVars, meterVars>>

StartRedeem(p) == StartRedeemOf(p, Ids)

\* GetByToken and the isUsed / IsExpired tests
RedeemGetToken(p) ==
    /\ pc[p] = "red_get_token"
    /\ \/ StoreFails(p)
       \/ LET r == GetByToken(loc[p].tok) IN
          IF r.err # "" THEN Return(p, r.err, 0)
          ELSE IF RedeemRefusal(r.token) # "" THEN Return(p, RedeemRefusal(r.token), 0)
          ELSE /\ pc' = [pc EXCEPT ![p] = "red_add"]
               /\ loc' = [loc EXCEPT ![p].amt = r.token.credits]
    /\ UNCHANGED <<users, credits, tokens, granted, attempts, calls, env, keyVars, meterVars>>

\* creditsRepo.UpdateCredits(userID, token.Credits)
RedeemAdd(p) ==
    /\ pc[p] = "red_add"
    /\ \/ /\ StoreFails(p)
          /\ UNCHANGED <<credits, granted>>
       \/ IF UpdateCreditsErr(loc[p].user) # ""
          THEN /\ Return(p, UpdateCreditsErr(loc[p].user), 0)
               /\ UNCHANGED <<credits, granted>>
          ELSE /\ credits' = UpdateCredits(loc[p].user, loc[p].amt)
               /\ granted' = [granted EXCEPT ![loc[p].tok] = @ + loc[p].amt]
               /\ pc' = [pc EXCEPT ![p] = "red_mark"]
               /\ UNCHANGED loc
    /\ UNCHANGED <<users, tokens, attempts, calls, env, keyVars, meterVars>>

\* tokenRepo.MarkAsUsed(token, userID)
RedeemMark(p) ==
    /\ pc[p] = "red_mark"
    /\ \/ /\ StoreFails(p)
          /\ UNCHANGED tokens
       \/ IF GetByToken(loc[p].tok).err # ""
          THEN /\ Return(p, ErrNotFound, 0)
               /\ UNCHANGED tokens
          ELSE /\ tokens' = MarkAsUsed(loc[p].tok, loc[p].user)
               /\ pc' = [pc EXCEPT ![p] = "red_get_bal"]
               /\ UNCHANGED loc
    /\ UNCHANGED <<users, credits, granted, attempts, calls, env, keyVars, meterVars>>

\* the balance of the response is read back
RedeemGetBalance(p) ==
    /\ pc[p] = "red_get_bal"
    /\ \/ StoreFails(p)
       \/ LET r == GetByUserID(loc[p].user) IN
          IF r.err # "" THEN Return(p, r.err, 0)
          ELSE Return(p, Ok, r.credits)
    /\ UNCHANGED <<users, credits, tokens, granted, attempts, calls, env, keyVars, meterVars>>

\* time passes the expiry of a token (CreditToken.IsExpired reads the clock)
TokenExpires ==
    \E t \in Tokens :
        /\ tokens[t].exists /\ ~tokens[t].expired
        /\ tokens' = [tokens EXCEPT ![t].expired = TRUE]
        /\ UNCHANGED <<users, credits, pc, loc, granted, attempts, calls, env, keyVars, meterVars>>

(***************************************************************************)
(* creditTokenService.DeleteToken.  A token stands for its document and    *)
(* for the _id of it.                                                      *)
(***************************************************************************)
\* DeleteToken without its isUsed test
DeleteRefusalNoUsedTest(token, adminEmail) ==
    IF token.createdBy # adminEmail THEN ErrForbidden ELSE ""

\* the two refusals of DeleteToken, in the order of the code
DeleteRefusal(token, adminEmail) ==
    IF token.createdBy # adminEmail THEN ErrForbidden
    ELSE IF token.isUsed THEN ErrBadRequest
    ELSE ""

\* the calls that are tried: by the creator and by another admin, with an id
\* that parses and with one that does not
StartDeleteToken(p) ==
    \E t \in Tokens, u \in Ids, hex \in BOOLEAN :
        /\ Enter(p, [Frame("DeleteToken", u, 0, t, "done") EXCEPT !.named = hex],
                 "del_get")
        /\ UNCHANGED <<users, credits, tokens, granted, attempts, env, keyVars, meterVars>>

\* ObjectIDFromHex, tokenRepo.GetByID and the tests of creator and isUsed
DeleteTokenGet(p) ==
    /\ pc[p] = "del_get"
    /\ \/ /\ ~loc[p].named
          /\ Return(p, ErrBadRequest, 0)
       \/ /\ loc[p].named
          /\ \/ StoreFails(p)
             \/ LET r == GetByToken(loc[p].tok) IN
                IF r.err # "" THEN Return(p, r.err, 0)
                ELSE IF DeleteRefusal(r.token, loc[p].user) # ""
                     THEN Return(p, DeleteRefusal(r.token, loc[p].user), 0)
                     ELSE /\ pc' = [pc EXCEPT ![p] = "del_delete"]
                          /\ UNCHANGED loc
    /\ UNCHANGED <<users, credits, tokens, granted, attempts, calls, env, keyVars, meterVars>>

\* tokenRepository.Delete: DeleteOne on the _id, whatever the document holds
DeleteTokenDelete(p) ==
    /\ pc[p] = "del_delete"
    /\ \/ /\ faults
          /\ Return(p, ErrInternalServer, 0)
          /\ UNCHANGED tokens
       \/ IF GetByToken(loc[p].tok).err # ""
          THEN /\ Return(p, ErrNotFound, 0)
               /\ UNCHANGED tokens
          ELSE /\ tokens' = [tokens EXCEPT ![loc[p].tok] = NoToken]
               /\ Return(p, Ok, 0)
    /\ UNCHANGED <<users, credits, granted, attempts, calls, env, keyVars, meterVars>>

(***************************************************************************)
(* API keys: apiKeyService over the api-key and user repositories.  A key  *)
(* document is [id, userId, keyHash, keyPrefix, isActive, expires,         *)
(* usageCount, lastUsed]; id stands for the _id and grows with createdAt;  *)
(* expires is "never" (no expiresAt), "future" or "past" relative to the   *)
(* clock; lastUsed tells whether lastUsedAt has been set.                  *)
(***************************************************************************)
\* the sizes of generateAPIKey: random bytes, and characters of the prefix
\* kept for identification
KeyBytes == 32
PrefixHex == 8
ByteRange == 256
HexBase == 16

KeyPrefix == <<"a", "k", "_", "l", "i", "v", "e", "_">>
HexDigits == <<"0", "1", "2", "3", "4", "5", "6", "7",
               "8", "9", "a", "b", "c", "d", "e", "f">>

\* the length APIKeyValidationRequest.Validate asks for
KeyLength == 72

\* strings.HasPrefix
HasPrefix(s, pre) == Len(s) >= Len(pre) /\ SubSeq(s, 1, Len(pre)) = pre

\* hex.EncodeToString: two digits for every byte, the high one first
EncodeToString(bytes) ==
    [i \in 1..(2 * Len(bytes)) |->
        LET b == bytes[(i + 1) \div 2]
        IN  HexDigits[(IF i % 2 = 1 THEN b \div HexBase ELSE b % HexBase) + 1]]

\* rand.Read for the n-th key: the draws differ from one another
RandRead(n) == [i \in 1..KeyBytes |-> (97 * n + 31 * i) % ByteRange]

\* sha256.Sum256 in hex: a one-way function without collisions
hashAPIKey(apiKey) == <<"sha256", apiKey>>

\* a generateAPIKey that hashes the random part without the prefix
generateAPIKeyHashesHex(n) ==
    LET randomHex == EncodeToString(RandRead(n))
    IN  [apiKey |-> KeyPrefix \o randomHex,
         keyHash |-> hashAPIKey(randomHex),
         keyPrefix |-> KeyPrefix \o SubSeq(randomHex, 1, PrefixHex)]

\* generateAPIKey: the key, its hash and its prefix
generateAPIKey(n) ==
    LET randomHex == EncodeToString(RandRead(n))
    IN  [apiKey |-> KeyPrefix \o randomHex,
         keyHash |-> hashAPIKey(KeyPrefix \o randomHex),
         keyPrefix |-> KeyPrefix \o SubSeq(randomHex, 1, PrefixHex)]

\* APIKeyValidationRequest.Validate
ValidateKeyFormat(apiKey) ==
    /\ apiKey # <<>>
    /\ HasPrefix(apiKey, KeyPrefix)
    /\ Len(apiKey) = KeyLength

\* the document CreateAPIKey builds for the n-th key
KeyRecord(n, u, exp) ==
    [id |-> n, userId |-> u, keyHash |-> generateAPIKey(n).keyHash,
     keyPrefix |-> generateAPIKey(n).keyPrefix, isActive |-> TRUE,
     expires |-> exp, usageCount |-> 0, lastUsed |-> FALSE]

\* userRepository.GetByUserID
UserDocs(u) == {i \in 1..Len(users) : users[i].userId = u}
GetUserErr(u) == IF UserDocs(u) = {} THEN ErrUserNotFound ELSE ""

KeysOf(u) == {k \in apiKeys : k.userId = u}

\* apiKeyRepository.DeleteByUserID: DeleteMany on userId
DeleteByUserID(u) == apiKeys \ KeysOf(u)

\* apiKeyRepository.GetByUserID: the most recently created key of the user
LatestKey(u) == CHOOSE k \in KeysOf(u) : \A j \in KeysOf(u) : j.id <= k.id

\* apiKeyRepository.Update: $set of the given fields on the document _id
UpdateKey(id, act) ==
    {IF k.id = id /\ act # "nil" THEN [k EXCEPT !.isActive = (act = "true")] ELSE k
        : k \in apiKeys}

\* APIKey.IsValid / the filter of GetActiveByHash
KeyLive(k) == k.isActive /\ k.expires # "past"

\* CreateAPIKeyRequest.Validate: a name, and no expiry in the past
ValidateCreateKey(named, exp) == named /\ exp # "past"

\* UpdateAPIKeyRequest.Validate: at least one field
ValidateUpdateKey(named, act) == named \/ act # "nil"

StartCreateKey(p) ==
    \E u \in Ids, rq \in {<<TRUE, "never">>, <<TRUE, "future">>,
                           <<TRUE, "past">>, <<FALSE, "never">>} :
        /\ Enter(p, [Frame("CreateKey", u, 0, 0, "done")
                        EXCEPT !.named = rq[1], !.exp = rq[2], !.nth = calls + 1,
                               !.cur = Cardinality(KeysOf(u))], "key_get_user")
        /\ UNCHANGED <<users, credits, tokens, granted, attempts, env, keyVars, meterVars>>

\* Validate, then userRepo.GetByUserID
CreateKeyGetUser(p) ==
    /\ pc[p] = "key_get_user"
    /\ \/ /\ ~ValidateCreateKey(loc[p].named, loc[p].exp)
          /\ Return(p, ErrValidation, 0)
       \/ /\ ValidateCreateKey(loc[p].named, loc[p].exp)
          /\ \/ StoreFails(p)
             \/ IF GetUserErr(loc[p].user) # ""
                THEN Return(p, GetUserErr(loc[p].user), 0)
                ELSE /\ pc' = [pc EXCEPT ![p] = "key_delete"]
                     /\ UNCHANGED loc
    /\ UNCHANGED <<users, credits, tokens, granted, attempts, calls, env, keyVars, meterVars>>

\* apiKeyRepo.DeleteByUserID, whose error is dropped: creation goes on
CreateKeyDelete(p) ==
    /\ pc[p] = "key_delete"
    /\ \/ /\ faults
          /\ loc' = [loc EXCEPT ![p].swallowed = TRUE]
          /\ UNCHANGED apiKeys
       \/ /\ apiKeys' = DeleteByUserID(loc[p].user)
          /\ UNCHANGED loc
    /\ pc' = [pc EXCEPT ![p] = "key_insert"]
    /\ UNCHANGED <<users, credits, tokens, granted, attempts, calls, env, meterVars>>

\* generateAPIKey and apiKeyRepo.Create
CreateKeyInsert(p) ==
    /\ pc[p] = "key_insert"
    /\ \/ /\ StoreFails(p)
          /\ UNCHANGED apiKeys
       \/ /\ apiKeys' = apiKeys \cup {KeyRecord(loc[p].nth, loc[p].user, loc[p].exp)}
          /\ pc' = [pc EXCEPT ![p] = loc[p].ret]
          /\ loc' = [loc EXCEPT ![p].res = Ok, ![p].cur = 0,
                                ![p].key = generateAPIKey(loc[p].nth).apiKey]
    /\ UNCHANGED <<users, credits, tokens, granted, attempts, calls, env, meterVars>>

StartUpdateKey(p) ==
    \E u \in Ids, rq \in {<<FALSE, "true">>, <<FALSE, "false">>,
                           <<TRUE, "nil">>, <<FALSE, "nil">>} :
        /\ Enter(p, [Frame("UpdateKey", u, 0, 0, "done")
                        EXCEPT !.named = rq[1], !.act = rq[2]], "key_upd_get")
        /\ UNCHANGED <<users, credits, tokens, granted, attempts, env, keyVars, meterVars>>

\* Validate, then apiKeyRepo.GetByUserID to learn the _id
UpdateKeyGet(p) ==
    /\ pc[p] = "key_upd_get"
    /\ \/ /\ ~ValidateUpdateKey(loc[p].named, loc[p].act)
          /\ Return(p, ErrValidation, 0)
       \/ /\ ValidateUpdateKey(loc[p].named, loc[p].act)
          /\ \/ StoreFails(p)
             \/ IF KeysOf(loc[p].user) = {}
                THEN Return(p, ErrNotFound, 0)
                ELSE /\ pc' = [pc EXCEPT ![p] = "key_upd_set"]
                     /\ loc' = [loc EXCEPT ![p].cur = LatestKey(loc[p].user).id]
    /\ UNCHANGED <<users, credits, tokens, granted, attempts, calls, env, keyVars, meterVars>>

\* apiKeyRepo.Update by _id; MatchedCount = 0 when the key is gone
UpdateKeySet(p) ==
    /\ pc[p] = "key_upd_set"
    /\ \/ /\ StoreFails(p)
          /\ UNCHANGED apiKeys
       \/ IF \E k \in apiKeys : k.id = loc[p].cur
          THEN /\ apiKeys' = UpdateKey(loc[p].cur, loc[p].act)
               /\ Return(p, Ok, 0)
          ELSE /\ Return(p, ErrNotFound, 0)
               /\ UNCHANGED apiKeys
    /\ UNCHANGED <<users, credits, tokens, granted, attempts, calls, env, meterVars>>

StartRevokeKey(p) ==
    \E u \in Ids :
        /\ Enter(p, Frame("RevokeKey", u, 0, 0, "done"), "key_revoke")
        /\ UNCHANGED <<users, credits, tokens, granted, attempts, env, keyVars, meterVars>>

\* RevokeAPIKey is apiKeyRepo.DeleteByUserID
RevokeKeyDelete(p) ==
    /\ pc[p] = "key_revoke"
    /\ \/ /\ StoreFails(p)
          /\ UNCHANGED apiKeys
       \/ /\ apiKeys' = DeleteByUserID(loc[p].user)
          /\ Return(p, Ok, 0)
    /\ UNCHANGED <<users, credits, tokens, granted, attempts, calls, env, meterVars>>

\* a request presents an API key: one that CreateAPIKey has handed out, or
\* one that never reached the store
StartValidateKey(p) ==
    \E n \in 0..calls :
        /\ Enter(p, [Frame("ValidateKey", EmptyId, 0, 0, "done")
                        EXCEPT !.key = generateAPIKey(n).apiKey], "key_validate")
        /\ UNCHANGED <<users, credits, tokens, granted, attempts, env, keyVars, meterVars>>

\* apiKeyRepository.GetActiveByHash: the active, unexpired documents of a hash
GetActiveByHash(keyHash) == {k \in apiKeys : k.keyHash = keyHash /\ KeyLive(k)}

\* ValidateAPIKey: hashAPIKey and GetActiveByHash; on success the record goes
\* to the middleware, which lets the request through, and the update of the
\* last use is left to a goroutine of its own
ValidateKeyGet(p) ==
    /\ pc[p] = "key_validate"
    /\ \/ StoreFails(p)
       \/ LET found == GetActiveByHash(hashAPIKey(loc[p].key))
          IN  IF found = {}
              THEN Return(p, ErrNotFound, 0)
              ELSE /\ pc' = [pc EXCEPT ![p] = "key_touch"]
                   /\ loc' = [loc EXCEPT ![p].res = Ok,
                                         ![p].user = (CHOOSE k \in found : TRUE).userId]
    /\ UNCHANGED <<users, credits, tokens, granted, attempts, calls, env, keyVars, meterVars>>

\* the $set of UpdateLastUsed taken literally: lastUsedAt and updatedAt are
\* set, the "$inc" entry is one more field of the $set document
SetLastUsed(keyHash) ==
    {IF k.keyHash = keyHash THEN [k EXCEPT !.lastUsed = TRUE] ELSE k : k \in apiKeys}

\* apiKeyRepository.UpdateLastUsed in its goroutine; the error is dropped.
\* The update document carries "$inc" inside "$set": the server either
\* refuses the field name, and nothing is written, or stores it as a field
UpdateLastUsed(p) ==
    /\ pc[p] = "key_touch"
    /\ \/ /\ faults
          /\ loc' = [loc EXCEPT ![p].swallowed = TRUE]
          /\ UNCHANGED apiKeys
       \/ /\ UNCHANGED <<loc, apiKeys>>
       \/ /\ apiKeys' = SetLastUsed(hashAPIKey(loc[p].key))
          /\ UNCHANGED loc
    /\ pc' = [pc EXCEPT ![p] = "done"]
    /\ UNCHANGED <<users, credits, tokens, granted, attempts, calls, env, meterVars>>

\* time passes the expiry of a key
KeyExpires ==
    \E k \in apiKeys :
        /\ k.expires = "future"
        /\ apiKeys' = (apiKeys \ {k}) \cup {[k EXCEPT !.expires = "past"]}
        /\ UNCHANGED <<users, credits, tokens, pc, loc, granted, attempts, calls, env, meterVars>>

(***************************************************************************)
(* Accounts: the user repository, userService.RegisterUser and             *)
(* userService.GetOrCreateUser.  The users collection has unique indexes   *)
(* on userId and on email, the credits collection one on userId.           *)
(***************************************************************************)
InitialCredits == 10

\* the addresses of Ids contain "@" and "."; this one does not
Malformed == "x"
IsValidEmail(e) == e # Malformed

\* RegisterUserRequest.Validate
ValidateRegister(u, e) == u # EmptyId /\ e # EmptyId /\ IsValidEmail(e)

UsersByEmail(e) == {i \in 1..Len(users) : users[i].email = e}

\* userRepository.GetByEmail: the position of the first match, 0 for none
FindUserByEmail(e) ==
    IF UsersByEmail(e) = {} THEN 0
    ELSE CHOOSE i \in UsersByEmail(e) : \A j \in UsersByEmail(e) : i <= j

FindUser(u) ==
    IF UserDocs(u) = {} THEN 0
    ELSE CHOOSE i \in UserDocs(u) : \A j \in UserDocs(u) : i <= j

\* InsertOne into users without a unique index to refuse it
DuplicateUserNoIndex(u, e) == FALSE

\* InsertOne into users: the duplicate key error of the two unique indexes
DuplicateUser(u, e) == UserDocs(u) # {} \/ UsersByEmail(e) # {}

\* InsertOne into credits: the duplicate key error of the unique index
DuplicateCredits(u) == CreditsDocs(u) # {}

RemoveAt(seq, i) == SubSeq(seq, 1, i - 1) \o SubSeq(seq, i + 1, Len(seq))

\* userRepository.Delete: DeleteOne on userId
DeleteUser(u) == IF FindUser(u) = 0 THEN users ELSE RemoveAt(users, FindUser(u))

\* an identity known neither to the users nor to the credits collection
Unknown(e) == UserDocs(e) = {} /\ UsersByEmail(e) = {} /\ CreditsDocs(e) = {}

\* a service call made from the handler p is in
Call(p, op, u, a, label, ret) ==
    /\ pc' = [pc EXCEPT ![p] = label]
    /\ loc' = [loc EXCEPT ![p] = [Frame(op, u, a, 0, ret) EXCEPT !.solo = loc[p].solo]]

\* the bodies of POST /register that are tried: the caller's own account, an
\* account that takes its user id or its e-mail, and one body for each test
\* of Validate
RegisterRequests ==
    {<<"a", "a">>, <<"a", "b">>, <<"b", "a">>,
     <<EmptyId, "a">>, <<"a", EmptyId>>, <<"a", Malformed>>}

\* UserHandler.RegisterUser
StartRegister(p) ==
    \E rq \in RegisterRequests :
        /\ Enter(p, Frame("Register", rq[1], 0, 0, "done"), "reg_get")
        /\ req' = [req EXCEPT ![p] = Req("register", rq[2], Unknown(rq[2]))]
        /\ UNCHANGED <<users, credits, tokVars, env, keyVars, usage>>

\* RegisterUser: Validate, then userRepo.GetByUserID
RegisterGet(p) ==
    /\ pc[p] = "reg_get"
    /\ \/ /\ ~ValidateRegister(loc[p].user, req[p].email)
          /\ Return(p, ErrValidation, 0)
       \/ /\ ValidateRegister(loc[p].user, req[p].email)
          /\ \/ StoreFails(p)
             \/ IF UserDocs(loc[p].user) # {}
                THEN Return(p, ErrUserAlreadyExists, 0)
                ELSE /\ pc' = [pc EXCEPT ![p] = "reg_create_user"]
                     /\ UNCHANGED loc
    /\ UNCHANGED <<users, credits, tokVars, calls, env, keyVars, meterVars>>

\* userRepo.Create
CreateUserStep(p, at, next) ==
    /\ pc[p] = at
    /\ \/ /\ StoreFails(p)
          /\ UNCHANGED users
       \/ IF DuplicateUser(loc[p].user, req[p].email)
          THEN /\ Return(p, ErrUserAlreadyExists, 0)
               /\ UNCHANGED users
          ELSE /\ users' = Append(users, User(loc[p].user, req[p].email))
               /\ pc' = [pc EXCEPT ![p] = next]
               /\ UNCHANGED loc
    /\ UNCHANGED <<credits, tokVars, calls, env, keyVars, meterVars>>

\* creditsRepo.Create of the initial balance; on an error the rollback follows
CreateCreditsStep(p, at, rollback) ==
    /\ pc[p] = at
    /\ \/ /\ faults \/ DuplicateCredits(loc[p].user)
          /\ pc' = [pc EXCEPT ![p] = rollback]
          /\ UNCHANGED <<loc, credits>>
       \/ /\ ~DuplicateCredits(loc[p].user)
          /\ credits' = Append(credits, CreditsDoc(loc[p].user, InitialCredits))
          /\ Return(p, Ok, InitialCredits)
    /\ UNCHANGED <<users, tokVars, calls, env, keyVars, meterVars>>

\* the rollback, userRepo.Delete, whose error is only logged; the error of
\* creditsRepo.Create is returned
RollbackStep(p, at) ==
    /\ pc[p] = at
    /\ \/ faults /\ UNCHANGED users
       \/ users' = DeleteUser(loc[p].user)
    /\ Return(p, ErrStore, 0)
    /\ UNCHANGED <<credits, tokVars, calls, env, keyVars, meterVars>>

RegisterCreateUser(p) == CreateUserStep(p, "reg_create_user", "reg_create_credits")
RegisterCreateCredits(p) == CreateCreditsStep(p, "reg_create_credits", "reg_rollback")
RegisterRollback(p) == RollbackStep(p, "reg_rollback")

\* the identity whose authenticated requests are followed; the other one
\* appears in registrations
Callers == {"a"}

\* GetOrCreateUser, as the API key handlers call it with the caller's e-mail
StartGetOrCreate(p) ==
    \E e \in Callers :
        /\ Enter(p, Frame("GetOrCreate", e, 0, 0, "done"), "goc_get")
        /\ req' = [req EXCEPT ![p] = Req("api-keys", e, Unknown(e))]
        /\ UNCHANGED <<users, credits, tokVars, env, keyVars, usage>>

\* GetOrCreateUser: userRepo.GetByEmail; the new user id is the e-mail
GetOrCreateGet(p) ==
    /\ pc[p] = "goc_get"
    /\ \/ StoreFails(p)
       \/ IF FindUserByEmail(req[p].email) # 0
          THEN Return(p, Ok, 0)
          ELSE /\ pc' = [pc EXCEPT ![p] = "goc_create_user"]
               /\ UNCHANGED loc
    /\ UNCHANGED <<users, credits, tokVars, calls, env, keyVars, meterVars>>

GetOrCreateCreateUser(p) == CreateUserStep(p, "goc_create_user", "goc_create_credits")
GetOrCreateCreateCredits(p) == CreateCreditsStep(p, "goc_create_credits", "goc_rollback")
GetOrCreateRollback(p) == RollbackStep(p, "goc_rollback")

(***************************************************************************)
(* The metered handlers behind the AuthOrAPIKey middleware: face           *)
(* detection, QR extraction, ID cropping, signature verification and face  *)
(* verification in the versions that track usage, and QR masking, which    *)
(* has no usage tracking.  They differ in the balance they require, in     *)
(* what they debit, in how the upstream client classifies a reply and in   *)
(* what they do with an answer whose success field is false.               *)
(***************************************************************************)
Services == {"face-detection", "qr-extraction", "id-cropping",
             "signature-verification", "face-verification", "qr-masking"}

\* `if balance.Credits < n`
MinCredits(svc) ==
    IF svc \in {"face-detection", "qr-extraction", "id-cropping"} THEN 1 ELSE 2

\* the Amount of the DeductCreditsRequest and the CreditsUsed of the record
Cost(svc) == IF svc \in {"signature-verification", "face-verification"} THEN 2 ELSE 1

\* whether the handler has a usage service and calls h.trackUsage
Tracks(svc) == svc # "qr-masking"

\* whether the handler tests `result == nil || !result.Success`
ChecksSuccess(svc) == svc # "face-verification"

\* whether the success = false branch calls DeductCredits and records the cost
ChargesFailure(svc) == svc \notin {"face-verification", "qr-masking"}

\* no "email" in the request context
NoEmail == "none"

\* what the upstream call can end in: no response (transport error, timeout,
\* aborted by the context), a body that is not the response shape, a
\* well-formed response with success = false, one with success = true
Replies == {"transport", "garbled", "failure", "success"}

\* what the API client returns to the handler: an error, or a result with
\* Success false or true; the face detection and QR extraction clients turn a
\* body they cannot parse into a result with Success = false
ClientUnparsedIsFailure(svc) == svc \in {"face-detection", "qr-extraction"}

Classify(svc, reply) ==
    CASE reply = "transport" -> "err"
      [] reply = "garbled" -> IF ClientUnparsedIsFailure(svc) THEN "failure" ELSE "err"
      [] reply = "failure" -> "failure"
      [] reply = "success" -> "success"

\* h.trackUsage: the tracking request handed to the detached goroutine, with
\* what the request has debited by then; a handler without usage tracking
\* hands over nothing
Track(p, who, success, used, debited) ==
    usage' = IF Tracks(req[p].svc)
             THEN Append(usage, [by |-> p, userId |-> who, svc |-> req[p].svc,
                                 success |-> success, creditsUsed |-> used,
                                 debited |-> debited, written |-> "pending"])
             ELSE usage

\* a detached write that fails, or runs into its 5 s timeout, and takes the
\* request it belongs to down with it
UsageWriteFailsRequest(i) ==
    /\ usage[i].written = "pending"
    /\ usage' = [usage EXCEPT ![i].written = "failed"]
    /\ req' = [req EXCEPT ![usage[i].by].status = 500, ![usage[i].by].body = "error"]
    /\ UNCHANGED <<users, credits, pc, loc, tokVars, calls, env, keyVars>>

\* the goroutine trackUsage started: usageService.TrackUsage under its own
\* 5 s context inserts the record, or fails or times out, which is printed
\* and nothing else
UsageWrite(i) ==
    /\ usage[i].written = "pending"
    /\ \/ usage' = [usage EXCEPT ![i].written = "stored"]
       \/ faults /\ usage' = [usage EXCEPT ![i].written = "failed"]
    /\ UNCHANGED <<users, credits, pc, loc, tokVars, calls, env, keyVars, req>>

\* the events of a request, in order
Recorded(svc) == IF Tracks(svc) THEN <<"record">> ELSE <<>>

\* the handler of p responds
Respond(p, status, body, evs) ==
    /\ pc' = [pc EXCEPT ![p] = "done"]
    /\ req' = [req EXCEPT ![p].status = status, ![p].body = body,
                          ![p].ev = @ \o evs \o Recorded(req[p].svc)]

\* the requests that are tried, per service: from each identity, with each
\* kind of credential, with no e-mail in the context, with a body that does
\* not validate, with a credential the middleware rejects
MeteredRequests ==
    Services \X {<<"a", TRUE, "bearer">>, <<"a", TRUE, "apikey">>, <<"b", TRUE, "bearer">>,
                 <<NoEmail, TRUE, "bearer">>, <<"a", FALSE, "bearer">>,
                 <<NoEmail, TRUE, "rejected">>}

\* the middleware and the handler up to its first store call: 401 from the
\* middleware for a missing or invalid credential, before the handler runs;
\* in the handler 401 without an e-mail, 400 for a body that does not parse
\* or validate
StartMeteredOf(p, requests) ==
    \E rq \in requests :
        LET svc == rq[1]
            who == rq[2][1]
            valid == rq[2][2]
            cred == rq[2][3]
            status == IF cred = "rejected" \/ who = NoEmail THEN 401
                      ELSE IF ~valid THEN 400 ELSE 0
            rec == [by |-> p, userId |-> IF who = NoEmail THEN "unknown" ELSE who,
                    svc |-> svc, success |-> FALSE, creditsUsed |-> 0, debited |-> 0,
                    written |-> "pending"]
            tracked == status # 0 /\ cred # "rejected" /\ Tracks(svc)
        IN  /\ Enter(p, Frame("Metered", who, 0, 0, "done"),
                     IF status = 0 THEN "m_get_user" ELSE "done")
            /\ req' = [req EXCEPT ![p] =
                          [Req(svc, who, who # NoEmail /\ Unknown(who))
                              EXCEPT !.status = status, !.auth = cred,
                                     !.body = IF status = 0 THEN "none" ELSE "error",
                                     !.ev = IF tracked THEN <<"record">> ELSE <<>>]]
            /\ usage' = IF tracked THEN Append(usage, rec) ELSE usage
            /\ UNCHANGED <<users, credits, tokVars, env, keyVars>>

StartMetered(p) == StartMeteredOf(p, MeteredRequests)

\* a well-formed face detection request
FirstRequests == {"face-detection"} \X (Callers \X {TRUE} \X {"bearer"})

StartFirstRequest(p) == StartMeteredOf(p, FirstRequests)

\* the inbound request is cancelled while the handler has not got the
\* answer of the upstream API yet: the context of the store calls and of
\* the upstream call is done
Cancel(p) ==
    /\ pc[p] \in {"m_get_user", "m_balance", "m_upstream"}
    /\ ~req[p].cancelled
    /\ req' = [req EXCEPT ![p].cancelled = TRUE]
    /\ UNCHANGED <<users, credits, pc, loc, tokVars, calls, env, keyVars, usage>>

\* a handler that debits the cost as soon as it has found the user
MeteredGetUserPrepays(p) ==
    /\ pc[p] = "m_get_user"
    /\ FindUserByEmail(req[p].email) # 0
    /\ Call(p, "Deduct", users[FindUserByEmail(req[p].email)].userId, Cost(req[p].svc),
            "ded_svc_get", "m_balance")
    /\ req' = [req EXCEPT ![p].ev = @ \o <<"debit">>]
    /\ UNCHANGED <<users, credits, usage, tokVars, calls, env, keyVars>>

\* userService.GetUserByEmail; an unknown caller is registered with the
\* e-mail as user id
MeteredGetUser(p) ==
    /\ pc[p] = "m_get_user"
    /\ \/ /\ faults \/ req[p].cancelled
          /\ Track(p, req[p].email, FALSE, 0, 0)
          /\ Respond(p, 404, "error", <<>>)
          /\ UNCHANGED loc
       \/ /\ ~req[p].cancelled
          /\ IF FindUserByEmail(req[p].email) # 0
             THEN /\ pc' = [pc EXCEPT ![p] = "m_balance"]
                  /\ loc' = [loc EXCEPT ![p].user = users[FindUserByEmail(req[p].email)].userId]
                  /\ UNCHANGED <<req, usage>>
             ELSE /\ Call(p, "Register", req[p].email, 0, "reg_get", "m_registered")
                  /\ UNCHANGED <<req, usage>>
    /\ UNCHANGED <<users, credits, tokVars, calls, env, keyVars>>

\* after RegisterUser: 500 when the auto-creation failed
MeteredRegistered(p) ==
    /\ pc[p] = "m_registered"
    /\ IF loc[p].res # Ok
       THEN /\ Track(p, req[p].email, FALSE, 0, 0)
            /\ pc' = [pc EXCEPT ![p] = "done"]
            /\ req' = [req EXCEPT ![p].status = 500, ![p].prov = loc[p].res,
                                  ![p].body = "error",
                                  ![p].ev = @ \o Recorded(req[p].svc)]
       ELSE /\ pc' = [pc EXCEPT ![p] = "m_balance"]
            /\ req' = [req EXCEPT ![p].prov = Ok]
            /\ UNCHANGED usage
    /\ UNCHANGED <<users, credits, loc, tokVars, calls, env, keyVars>>

\* a handler that issues the debit before it refuses for the balance
MeteredBalanceDebitsAnyway(p) ==
    /\ pc[p] = "m_balance"
    /\ ~req[p].cancelled
    /\ LET r == GetByUserID(loc[p].user) IN
       IF r.err = "" /\ r.credits < MinCredits(req[p].svc)
       THEN /\ Call(p, "Deduct", loc[p].user, Cost(req[p].svc), "ded_svc_get", "done")
            /\ req' = [req EXCEPT ![p].status = 400, ![p].body = "insufficient",
                                  ![p].ev = @ \o <<"debit">>]
       ELSE /\ pc' = [pc EXCEPT ![p] = "m_upstream"]
            /\ UNCHANGED <<req, loc>>
    /\ UNCHANGED <<users, credits, usage, tokVars, calls, env, keyVars>>

\* creditsService.GetBalance and the test of the balance
MeteredBalance(p) ==
    /\ pc[p] = "m_balance"
    /\ \/ /\ faults \/ req[p].cancelled
          /\ Track(p, loc[p].user, FALSE, 0, 0)
          /\ Respond(p, 500, "error", <<>>)
       \/ /\ ~req[p].cancelled
          /\ LET r == GetByUserID(loc[p].user) IN
             IF r.err # ""
             THEN /\ Track(p, loc[p].user, FALSE, 0, 0)
                  /\ Respond(p, 404, "error", <<>>)
             ELSE IF r.credits < MinCredits(req[p].svc)
                  THEN /\ Track(p, loc[p].user, FALSE, 0, 0)
                       /\ Respond(p, 400, "insufficient", <<>>)
                  ELSE /\ pc' = [pc EXCEPT ![p] = "m_upstream"]
                       /\ UNCHANGED <<req, usage>>
    /\ UNCHANGED <<users, credits, loc, tokVars, calls, env, keyVars>>

\* the call of the upstream API and what the handler does with what the
\* client returns: an error ends the request with 500; a result with
\* Success = false is charged, refused without a charge or, where Success is
\* not looked at, settled like a success; a success is settled
MeteredUpstreamOf(p, replies) ==
    /\ pc[p] = "m_upstream"
    /\ \E reply \in replies \cup {"transport"} :
        LET svc == req[p].svc
            got == Classify(svc, reply)
        IN  /\ req[p].cancelled => reply = "transport"
            /\ IF got = "err"
               THEN /\ Track(p, loc[p].user, FALSE, 0, 0)
                    /\ pc' = [pc EXCEPT ![p] = "done"]
                    /\ req' = [req EXCEPT ![p].status = 500, ![p].body = "error",
                                          ![p].reply = reply,
                                          ![p].ev = @ \o <<"upstream">> \o Recorded(svc)]
                    /\ UNCHANGED loc
               ELSE IF got = "failure" /\ ChecksSuccess(svc) /\ ~ChargesFailure(svc)
               THEN /\ Track(p, loc[p].user, FALSE, 0, 0)
                    /\ pc' = [pc EXCEPT ![p] = "done"]
                    /\ req' = [req EXCEPT ![p].status = 400, ![p].body = "translated",
                                          ![p].reply = reply,
                                          ![p].ev = @ \o <<"upstream">> \o Recorded(svc)]
                    /\ UNCHANGED loc
               ELSE /\ Call(p, "Deduct", loc[p].user, Cost(svc), "ded_svc_get",
                            IF got = "failure" /\ ChecksSuccess(svc)
                            THEN "m_failure_charged" ELSE "m_settled")
                    /\ req' = [req EXCEPT ![p].reply = reply,
                                          ![p].ev = @ \o <<"upstream", "debit">>]
                    /\ UNCHANGED usage
    /\ UNCHANGED <<users, credits, tokVars, calls, env, keyVars>>

MeteredUpstream(p) == MeteredUpstreamOf(p, Replies)

\* what the request has taken from the account when DeductCredits is back
Debited(p) == IF loc[p].res = Ok THEN loc[p].amt ELSE 0

\* the success = false branch after its DeductCredits, whose result is
\* dropped: the record says success and the cost; a caller with an API key
\* gets the upstream body, a caller with a bearer token the translated error
MeteredFailureCharged(p) ==
    /\ pc[p] = "m_failure_charged"
    /\ Track(p, loc[p].user, TRUE, Cost(req[p].svc), Debited(p))
    /\ pc' = [pc EXCEPT ![p] = "done"]
    /\ req' = [req EXCEPT ![p].status = 400,
                          ![p].body = IF req[p].auth = "apikey" THEN "raw" ELSE "translated",
                          ![p].paid = Debited(p),
                          ![p].settle = loc[p].res,
                          ![p].ev = @ \o <<"debited">> \o Recorded(req[p].svc)]
    /\ UNCHANGED <<users, credits, loc, tokVars, calls, env, keyVars>>

\* the success = true branch after its DeductCredits; a caller with an API
\* key gets the upstream result, a caller with a bearer token the response
\* with the remaining credits around it
MeteredSettled(p) ==
    /\ pc[p] = "m_settled"
    /\ IF loc[p].res # Ok
       THEN Track(p, loc[p].user, FALSE, 0, 0)
       ELSE Track(p, loc[p].user, TRUE, Cost(req[p].svc), loc[p].amt)
    /\ pc' = [pc EXCEPT ![p] = "done"]
    /\ req' = [req EXCEPT ![p].status = IF loc[p].res # Ok THEN 500 ELSE 200,
                          ![p].body = IF loc[p].res # Ok THEN "unsettled"
                                      ELSE IF req[p].auth = "apikey" THEN "raw"
                                      ELSE "envelope",
                          ![p].paid = Debited(p),
                          ![p].settle = loc[p].res,
                          ![p].ev = @ \o <<"debited">> \o Recorded(req[p].svc)]
    /\ UNCHANGED <<users, credits, loc, tokVars, calls, env, keyVars>>

(***************************************************************************)
(* The routes and their middleware: the operation endpoints behind         *)
(* AuthOrAPIKey, the account endpoints behind Auth, the admin endpoints    *)
(* behind Auth and AdminOnly.                                              *)
(***************************************************************************)
OperationRoutes == {"qr-masking"}
AccountRoutes == {"/credits/deduct"}
AdminRoutes == {"/credits/add"}
Routes == OperationRoutes \cup AccountRoutes \cup AdminRoutes

\* a signed token is not an API key
JWT == <<"e", "y", "J">>

\* the credentials that are tried: tokens of a user and of an admin, a token
\* without an e-mail claim, a token that does not verify, the API key of "a"
\* and a key that was never handed out, and no header at all
Credentials ==
    {Credential(TRUE, JWT, TRUE, "a", FALSE), Credential(TRUE, JWT, TRUE, "a", TRUE),
     Credential(TRUE, JWT, TRUE, EmptyId, FALSE), Credential(TRUE, JWT, TRUE, EmptyId, TRUE),
     Credential(TRUE, JWT, FALSE, "a", TRUE),
     Credential(TRUE, generateAPIKey(0).apiKey, FALSE, EmptyId, FALSE),
     Credential(TRUE, generateAPIKey(1).apiKey, FALSE, EmptyId, FALSE),
     NoCredential}

\* what a middleware leaves in the request context, or the status it answers
Deny(status) == [status |-> status, email |-> EmptyId, isAdmin |-> FALSE, viaKey |-> FALSE]
Pass(email, isAdmin, viaKey) ==
    [status |-> 0, email |-> email, isAdmin |-> isAdmin, viaKey |-> viaKey]

\* verifyKindeToken: the token parses as a JWT, its signature verifies and
\* its issuer is the configured one
verifyKindeToken(c) == c.token = JWT /\ c.signed

\* the roles of the claims make an admin
isUserAdmin(c) == c.admin

\* AuthOrAPIKey; up tells whether the store answers the lookup of the key
AuthOrAPIKey(c, up) ==
    IF ~c.header THEN Deny(401)
    ELSE IF HasPrefix(c.token, KeyPrefix)
    THEN IF ~up \/ GetActiveByHash(hashAPIKey(c.token)) = {} THEN Deny(401)
         ELSE Pass((CHOOSE k \in GetActiveByHash(hashAPIKey(c.token)) : TRUE).userId,
                   FALSE, TRUE)
    ELSE IF ~verifyKindeToken(c) THEN Deny(401)
    ELSE Pass(c.email, isUserAdmin(c), FALSE)

\* an Auth that takes an API key the way AuthOrAPIKey does
AuthTakesKeys(c, up) ==
    IF HasPrefix(c.token, KeyPrefix) THEN AuthOrAPIKey(c, up)
    ELSE IF ~c.header \/ c.token = <<>> \/ ~verifyKindeToken(c) \/ c.email = EmptyId
    THEN Deny(401)
    ELSE Pass(c.email, isUserAdmin(c), FALSE)

\* Auth: a signed token with an e-mail claim, nothing else
Auth(c, up) ==
    IF ~c.header \/ c.token = <<>> \/ ~verifyKindeToken(c) \/ c.email = EmptyId
    THEN Deny(401)
    ELSE Pass(c.email, isUserAdmin(c), FALSE)

\* AdminOnly and IsAdminFromContext: the resolved identity has the admin role
AdminOnly(ctx) == IF ctx.isAdmin THEN ctx ELSE Deny(403)

\* the middleware chain of a route
Gate(route, c, up) ==
    IF route \in OperationRoutes THEN AuthOrAPIKey(c, up)
    ELSE IF Auth(c, up).status # 0 THEN Auth(c, up)
    ELSE IF route \in AdminRoutes THEN AdminOnly(Auth(c, up))
    ELSE Auth(c, up)

\* a request comes in on a route: the middleware answers it, or the handler
\* starts with what the middleware has resolved.  The bodies are well formed:
\* one credit of "a" for the two credits routes.  When a key has been
\* validated the update of its last use may have been applied
StartRouted(p) ==
    /\ pc[p] = "idle"
    /\ \E route \in Routes, c \in Credentials, up \in {TRUE, ~faults} :
        LET ctx == Gate(route, c, up)
            r == [Req(route, ctx.email, ctx.status = 0 /\ Unknown(ctx.email))
                     EXCEPT !.status = ctx.status,
                            !.auth = IF ctx.viaKey THEN "apikey" ELSE "bearer",
                            !.body = IF ctx.status = 0 THEN "none" ELSE "error",
                            !.admin = ctx.isAdmin, !.cred = c]
        IN  /\ req' = [req EXCEPT ![p] = r]
            /\ IF ctx.status # 0
               THEN Enter(p, Frame("Refused", EmptyId, 0, 0, "done"), "done")
               ELSE IF route \in OperationRoutes
               THEN Enter(p, Frame("Metered", ctx.email, 0, 0, "done"), "m_get_user")
               ELSE IF route \in AccountRoutes
               THEN Enter(p, [Frame("Deduct", "a", 1, 0, "done")
                                 EXCEPT !.bal0 = GetByUserID("a").credits], "ded_svc_get")
               ELSE /\ GetByUserID("a").credits < MaxBal
                    /\ Enter(p, Frame("Add", "a", 1, 0, "done"), "add_svc_get")
            /\ \/ UNCHANGED apiKeys
               \/ /\ ctx.viaKey
                  /\ apiKeys' = SetLastUsed(hashAPIKey(c.token))
                  /\ apiKeys' # apiKeys
            /\ UNCHANGED <<users, credits, tokVars, env, usage>>

\* POST /credits/deduct behind Auth: the handler decodes the body and hands it
\* to the service; the userId is the one of the body, for one credit
StartDeductRequest(p) ==
    /\ pc[p] = "idle"
    /\ \E c \in Credentials, userId \in Ids :
        LET ctx == Gate("/credits/deduct", c, TRUE)
            r == [Req("/credits/deduct", ctx.email, FALSE)
                     EXCEPT !.status = ctx.status,
                            !.body = IF ctx.status = 0 THEN "none" ELSE "error",
                            !.admin = ctx.isAdmin, !.cred = c]
        IN  /\ req' = [req EXCEPT ![p] = r]
            /\ IF ctx.status # 0
               THEN Enter(p, Frame("Refused", EmptyId, 0, 0, "done"), "done")
               ELSE Enter(p, [Frame("Deduct", userId, 1, 0, "done")
                                 EXCEPT !.bal0 = GetByUserID(userId).credits],
                          "ded_svc_get")
            /\ UNCHANGED <<users, credits, tokVars, env, keyVars, usage>>

(***************************************************************************)
(* The error translator.  A technical message is a sequence of words, each *)
(* in lower case or in capitals, and of stretches of white space; the table *)
(* is the part of the mapper's table that has the keys below.              *)
(***************************************************************************)
Words == {"document", "not", "detected", "timeout", "internal", "server", "error"}

Shout(w) ==
    CASE w = "document" -> "DOCUMENT"
      [] w = "not" -> "NOT"
      [] w = "detected" -> "DETECTED"
      [] w = "timeout" -> "TIMEOUT"
      [] w = "internal" -> "INTERNAL"
      [] w = "server" -> "SERVER"
      [] w = "error" -> "ERROR"

Blank == " "

Symbols == Words \cup {Shout(w) : w \in Words} \cup {Blank}

\* the messages of at most MaxWords symbols
Messages == UNION {[1..n -> Symbols] : n \in 0..MaxWords}

\* strings.ToLower
ToLower(m) ==
    [i \in 1..Len(m) |-> IF m[i] \in Words \cup {Blank} THEN m[i]
                         ELSE CHOOSE w \in Words : Shout(w) = m[i]]

\* strings.TrimSpace: white space at either end goes
RECURSIVE TrimLeft(_)
TrimLeft(m) == IF m # <<>> /\ Head(m) = Blank THEN TrimLeft(Tail(m)) ELSE m

RECURSIVE TrimRight(_)
TrimRight(m) ==
    IF m # <<>> /\ m[Len(m)] = Blank THEN TrimRight(SubSeq(m, 1, Len(m) - 1)) ELSE m

TrimSpace(m) == TrimRight(TrimLeft(m))

\* strings.Contains
Contains(m, k) ==
    \E i \in 0..(Len(m) - Len(k)) : SubSeq(m, i + 1, i + Len(k)) = k

\* the fallback of MapError
GenUnknown == "GEN_UNKNOWN"

\* m.errorMappings: key -> ErrorCode of the entry
ErrorMappings ==
    {<< <<"document", "not", "detected">>, "ID_CROP_003" >>,
     << <<"timeout">>, "GEN_002" >>,
     << <<"server", "error">>, "GEN_003" >>,
     << <<"internal", "server", "error">>, "GEN_004" >>}

Keys == {e[1] : e \in ErrorMappings}
Entry(k) == (CHOOSE e \in ErrorMappings : e[1] = k)[2]

\* the keys the scan of the table can stop at
Contained(l) == {k \in Keys : Contains(l, k)}

\* a MapError that goes straight to the scan of the table
MapErrorScanOnly(technicalError) ==
    LET lowerError == ToLower(TrimSpace(technicalError)) IN
    IF Contained(lowerError) # {} THEN {Entry(k) : k \in Contained(lowerError)}
    ELSE {GenUnknown}

\* MapError: what a call can return.  The scan ranges over a Go map, whose
\* iteration order is not specified, so it can stop at any contained key.
MapError(technicalError) ==
    LET lowerError == ToLower(TrimSpace(technicalError)) IN
    IF lowerError \in Keys THEN {Entry(lowerError)}
    ELSE IF Contained(lowerError) # {} THEN {Entry(k) : k \in Contained(lowerError)}
    ELSE {GenUnknown}

NoMessage == [msg |-> <<>>, got |-> "none", low |-> "none"]

\* a call of MapError with the message
Translate ==
    /\ tr.got = "none"
    /\ \E e \in MapError(tr.msg) : tr' = [tr EXCEPT !.got = e]
    /\ UNCHANGED <<users, credits, tokens, pc, loc, granted, attempts, calls, race,
                   faults, apiKeys, req, usage>>

\* a call of MapError with the message in lower case
TranslateLowered ==
    /\ tr.low = "none"
    /\ \E e \in MapError(ToLower(tr.msg)) : tr' = [tr EXCEPT !.low = e]
    /\ UNCHANGED <<users, credits, tokens, pc, loc, granted, attempts, calls, race,
                   faults, apiKeys, req, usage>>

(***************************************************************************)
(* Specifications.                                                         *)
(***************************************************************************)
Quiet ==
    /\ tr = NoMessage
    /\ pc = [p \in Procs |-> "idle"]
    /\ loc = [p \in Procs |-> IdleFrame]
    /\ granted = [t \in Tokens |-> 0]
    /\ attempts = [t \in Tokens |-> 0]
    /\ calls = 0

NoRace == race = [bal |-> 0, amt |-> 0]
NoRequests == req = [p \in Procs |-> IdleReq] /\ usage = <<>>
NoKeys == apiKeys = {}
NoTokens == tokens = [t \in Tokens |-> NoToken]

\* accounts as provisioning and earlier requests leave them: "a" with some
\* balance left, "b" unknown to the ledger
InitAccounts ==
    \E b \in 0..MaxBal :
        /\ users = <<UserDoc("a")>>
        /\ credits = <<CreditsDoc("a", b)>>

\* two accounts that have spent their credits
InitTwoAccounts ==
    /\ users = <<UserDoc("a"), UserDoc("b")>>
    /\ credits = <<CreditsDoc("a", 0), CreditsDoc("b", 0)>>

\* every token has been generated by the admin "a", for the same number of
\* credits, and is unused
InitTokens ==
    \E c \in 1..MaxTokCredits :
        tokens = [t \in Tokens |->
                    [exists |-> TRUE, credits |-> c, createdBy |-> "a",
                     isUsed |-> FALSE, usedBy |-> EmptyId, expired |-> FALSE]]

Init == InitAccounts /\ InitTokens /\ Quiet /\ NoRace /\ NoKeys /\ NoRequests /\ faults = TRUE

InitToken == InitTwoAccounts /\ InitTokens /\ Quiet /\ NoRace /\ NoKeys /\ NoRequests /\ faults = TRUE

DeductCredits(p) ==
    StartDeduct(p) \/ DeductSvcGet(p) \/ DeductRepoGet(p) \/ DeductUpdate(p)

AddCredits(p) == StartAdd(p) \/ AddSvcGet(p) \/ AddUpdate(p)

RedeemToken(p) ==
    \/ StartRedeem(p)
    \/ RedeemGetToken(p)
    \/ RedeemAdd(p)
    \/ RedeemMark(p)
    \/ RedeemGetBalance(p)

\* the ledger under debits, credits and redemptions
NextLedger ==
    \E p \in Procs : DeductCredits(p) \/ AddCredits(p) \/ RedeemToken(p)

SpecLedger == Init /\ [][NextLedger]_vars

\* debits and credits only
NextCredits ==
    \E p \in Procs : DeductCredits(p) \/ AddCredits(p)

InitCredits == InitAccounts /\ NoTokens /\ Quiet /\ NoRace /\ NoKeys /\ NoRequests /\ faults = TRUE

SpecCredits == InitCredits /\ [][NextCredits]_vars

\* a race of equal debits: every goroutine issues one DeductCredits of the
\* same amount against the same account, and nothing else runs
InitDebit ==
    /\ \E b \in 0..MaxBal, a \in 1..MaxAmt :
          /\ race = [bal |-> b, amt |-> a]
          /\ credits = <<CreditsDoc("a", b)>>
    /\ users = <<UserDoc("a")>>
    /\ NoTokens /\ Quiet /\ NoKeys /\ NoRequests /\ faults = TRUE

NextDebit ==
    \E p \in Procs :
        StartRaceDeduct(p) \/ DeductSvcGet(p) \/ DeductRepoGet(p) \/ DeductUpdate(p)

SpecDebit == InitDebit /\ [][NextDebit]_vars

\* the API keys: account "a" with no key or with one key, "b" unknown
KeysAtStart ==
    /\ users = <<UserDoc("a")>>
    /\ credits = <<CreditsDoc("a", MaxBal)>>
    /\ NoTokens /\ Quiet /\ NoRace /\ NoRequests
    /\ \/ apiKeys = {}
       \/ \E e \in {"never", "future"} :
             apiKeys = {KeyRecord(0, "a", e)}

CreateAPIKey(p) ==
    StartCreateKey(p) \/ CreateKeyGetUser(p) \/ CreateKeyDelete(p) \/ CreateKeyInsert(p)

UpdateAPIKey(p) == StartUpdateKey(p) \/ UpdateKeyGet(p) \/ UpdateKeySet(p)

RevokeAPIKey(p) == StartRevokeKey(p) \/ RevokeKeyDelete(p)

NextKeys ==
    \/ \E p \in Procs : CreateAPIKey(p) \/ UpdateAPIKey(p) \/ RevokeAPIKey(p)
    \/ KeyExpires

ValidateAPIKey(p) == StartValidateKey(p) \/ ValidateKeyGet(p) \/ UpdateLastUsed(p)

\* the keys under management and in use, with store calls that can fail
NextAuth ==
    \/ \E p \in Procs :
          CreateAPIKey(p) \/ UpdateAPIKey(p) \/ RevokeAPIKey(p) \/ ValidateAPIKey(p)
    \/ KeyExpires

InitAuth == KeysAtStart /\ faults = TRUE

SpecAuth == InitAuth /\ [][NextAuth]_vars

\* keys are created and presented, and time passes; no key at the start
NextRoundTrip ==
    \/ \E p \in Procs : CreateAPIKey(p) \/ ValidateAPIKey(p)
    \/ KeyExpires

InitRoundTrip == KeysAtStart /\ NoKeys /\ faults = TRUE

SpecRoundTrip == InitRoundTrip /\ [][NextRoundTrip]_vars

\* with store calls that can fail
InitKeys == KeysAtStart /\ faults = TRUE

SpecKeys == InitKeys /\ [][NextKeys]_vars

\* with a store that answers every call
InitKeysRace == KeysAtStart /\ faults = FALSE

SpecKeysRace == InitKeysRace /\ [][NextKeys]_vars

RegisterUser(p) ==
    \/ RegisterGet(p)
    \/ RegisterCreateUser(p)
    \/ RegisterCreateCredits(p)
    \/ RegisterRollback(p)

GetOrCreateUser(p) ==
    \/ StartGetOrCreate(p)
    \/ GetOrCreateGet(p)
    \/ GetOrCreateCreateUser(p)
    \/ GetOrCreateCreateCredits(p)
    \/ GetOrCreateRollback(p)

MeteredSteps(p) ==
    \/ MeteredGetUser(p)
    \/ MeteredRegistered(p)
    \/ MeteredBalance(p)
    \/ MeteredUpstream(p)
    \/ MeteredFailureCharged(p)
    \/ MeteredSettled(p)

Metered(p) == StartMetered(p) \/ MeteredSteps(p)

\* the accounts: nobody is known yet
InitProv ==
    /\ users = <<>> /\ credits = <<>>
    /\ NoTokens /\ Quiet /\ NoRace /\ NoKeys /\ NoRequests /\ faults = TRUE

\* registrations, API key requests and metered requests of known and unknown
\* callers
NextProv ==
    \E p \in Procs :
        \/ StartRegister(p) \/ RegisterUser(p)
        \/ GetOrCreateUser(p)
        \/ StartFirstRequest(p) \/ MeteredSteps(p)
        \/ DeductSvcGet(p) \/ DeductRepoGet(p) \/ DeductUpdate(p)

SpecProv == InitProv /\ [][NextProv]_vars

\* the metered requests of "a", who has some balance left, and of "b", who
\* is not known yet
InitMetered ==
    /\ InitAccounts
    /\ NoTokens /\ Quiet /\ NoRace /\ NoKeys /\ NoRequests /\ faults = TRUE

NextMetered ==
    \E p \in Procs :
        \/ Metered(p)
        \/ RegisterUser(p)
        \/ DeductSvcGet(p) \/ DeductRepoGet(p) \/ DeductUpdate(p)

SpecMetered == InitMetered /\ [][NextMetered]_vars

\* metered requests of "a", with a store that answers every call and an
\* upstream that answers with success or not at all: well formed ones, ones whose body does not validate, ones with no e-mail in
\* the context and ones whose credential the middleware rejects
RefusalRequests ==
    {"signature-verification", "qr-masking", "face-detection"} \X
                {<<"a", TRUE, "bearer">>, <<"a", FALSE, "bearer">>,
                 <<NoEmail, TRUE, "bearer">>, <<NoEmail, TRUE, "rejected">>}

StartRefusable(p) == StartMeteredOf(p, RefusalRequests)

\* the upstream answers with success, or not at all
MeteredUpstreamAnswers(p) == MeteredUpstreamOf(p, {"success"})

InitRefusals ==
    /\ InitAccounts
    /\ NoTokens /\ Quiet /\ NoRace /\ NoKeys /\ NoRequests /\ faults = FALSE

NextRefusals ==
    \E p \in Procs :
        \/ StartRefusable(p)
        \/ MeteredGetUser(p) \/ MeteredBalance(p)
        \/ MeteredUpstreamAnswers(p) \/ MeteredSettled(p)
        \/ DeductSvcGet(p) \/ DeductRepoGet(p) \/ DeductUpdate(p)

SpecRefusals == InitRefusals /\ [][NextRefusals]_vars

\* well-formed signature verification and QR extraction requests of "a",
\* with store calls that can fail and an upstream that answers in every way
OrderedRequests ==
    {"signature-verification", "qr-extraction"} \X {<<"a", TRUE, "bearer">>}

StartOrdered(p) == StartMeteredOf(p, OrderedRequests)

InitOrder ==
    /\ InitAccounts
    /\ NoTokens /\ Quiet /\ NoRace /\ NoKeys /\ NoRequests /\ faults = TRUE

NextOrder ==
    \E p \in Procs :
        \/ StartOrdered(p)
        \/ MeteredGetUser(p) \/ MeteredBalance(p) \/ MeteredUpstream(p)
        \/ MeteredFailureCharged(p) \/ MeteredSettled(p)
        \/ DeductSvcGet(p) \/ DeductRepoGet(p) \/ DeductUpdate(p)

SpecOrder == InitOrder /\ [][NextOrder]_vars

\* well-formed requests of "a" to every metered route, any of which the
\* caller may cancel before the upstream has answered
CancellableRequests == Services \X {<<"a", TRUE, "bearer">>}

StartCancellable(p) == StartMeteredOf(p, CancellableRequests)

InitCancel ==
    /\ InitAccounts
    /\ NoTokens /\ Quiet /\ NoRace /\ NoKeys /\ NoRequests /\ faults = FALSE

NextCancel ==
    \E p \in Procs :
        \/ StartCancellable(p) \/ Cancel(p)
        \/ MeteredGetUser(p) \/ MeteredBalance(p) \/ MeteredUpstream(p)
        \/ MeteredFailureCharged(p) \/ MeteredSettled(p)
        \/ DeductSvcGet(p) \/ DeductRepoGet(p) \/ DeductUpdate(p)

SpecCancel == InitCancel /\ [][NextCancel]_vars

\* face verification requests of "a", well formed or not, and the detached
\* writes of their usage records, with store calls that can fail and an
\* upstream that answers with success or not at all
RecordedRequests ==
    {"face-verification"} \X {<<"a", TRUE, "bearer">>, <<"a", FALSE, "bearer">>}

StartRecorded(p) == StartMeteredOf(p, RecordedRequests)

InitRecorder ==
    /\ InitAccounts
    /\ NoTokens /\ Quiet /\ NoRace /\ NoKeys /\ NoRequests /\ faults = TRUE

\* a step of the handler of p
HandlerStep(p) ==
    \/ MeteredGetUser(p) \/ MeteredBalance(p)
    \/ MeteredUpstreamAnswers(p) \/ MeteredSettled(p)
    \/ DeductSvcGet(p) \/ DeductRepoGet(p) \/ DeductUpdate(p)

NextRecorder ==
    \/ \E p \in Procs : StartRecorded(p) \/ HandlerStep(p)
    \/ \E i \in 1..Len(usage) : UsageWrite(i)

SpecRecorder == InitRecorder /\ [][NextRecorder]_vars

\* the translator alone, on every message
InitTranslate ==
    /\ \E m \in Messages : tr = [NoMessage EXCEPT !.msg = m]
    /\ users = <<>> /\ credits = <<>> /\ race = [bal |-> 0, amt |-> 0]
    /\ pc = [p \in Procs |-> "idle"] /\ loc = [p \in Procs |-> IdleFrame]
    /\ granted = [t \in Tokens |-> 0] /\ attempts = [t \in Tokens |-> 0]
    /\ calls = 0
    /\ NoTokens /\ NoKeys /\ NoRequests /\ faults = FALSE

NextTranslate == Translate \/ TranslateLowered

SpecTranslate == InitTranslate /\ [][NextTranslate]_vars

\* the credit tokens
NextToken ==
    \/ \E p \in Procs : RedeemToken(p)
    \/ TokenExpires

SpecToken == InitToken /\ [][NextToken]_vars

\* the routes: "a" with room for one more credit and with or without an API
\* key, and a store that answers every call
InitRoutes ==
    /\ users = <<UserDoc("a")>>
    /\ credits = <<CreditsDoc("a", MaxBal - 1)>>
    /\ apiKeys = {} \/ apiKeys = {KeyRecord(0, "a", "never")}
    /\ NoTokens /\ Quiet /\ NoRace /\ NoRequests /\ faults = FALSE

NextRoutes ==
    \E p \in Procs :
        \/ StartRouted(p)
        \/ MeteredGetUser(p) \/ RegisterGet(p) \/ MeteredRegistered(p)
        \/ MeteredBalance(p) \/ MeteredUpstreamAnswers(p) \/ MeteredSettled(p)
        \/ DeductSvcGet(p) \/ DeductRepoGet(p) \/ DeductUpdate(p)
        \/ AddSvcGet(p) \/ AddUpdate(p)

SpecRoutes == InitRoutes /\ [][NextRoutes]_vars

\* the ledger of one account: "a" as RegisterUser leaves it, with its initial
\* credits, and every token unused and worth MaxTokCredits; debits and credits
\* of 1..MaxAmt on the account and redemptions by it, while the store may fail
\* any call
InitConserve ==
    /\ users = <<UserDoc("a")>>
    /\ credits = <<CreditsDoc("a", InitialCredits)>>
    /\ InitTokens /\ \A t \in Tokens : tokens[t].credits = MaxTokCredits
    /\ Quiet /\ NoRace /\ NoKeys /\ NoRequests /\ faults = TRUE

LedgerRequests == {"a"} \X (1..MaxAmt)

NextConserve ==
    \E p \in Procs :
        \/ StartDeductOf(p, LedgerRequests)
        \/ DeductSvcGet(p) \/ DeductRepoGet(p) \/ DeductUpdate(p)
        \/ StartAddOf(p, LedgerRequests, InitialCredits + NProcs * MaxAmt)
        \/ AddSvcGet(p) \/ AddUpdate(p)
        \/ StartRedeemOf(p, {"a"})
        \/ RedeemGetToken(p) \/ RedeemAdd(p) \/ RedeemMark(p) \/ RedeemGetBalance(p)

SpecConserve == InitConserve /\ [][NextConserve]_vars

\* the debit route called by "a", with the accounts of "a" and "b" in credit
InitOwner ==
    /\ users = <<UserDoc("a"), UserDoc("b")>>
    /\ \E x, y \in 1..MaxBal : credits = <<CreditsDoc("a", x), CreditsDoc("b", y)>>
    /\ NoTokens /\ Quiet /\ NoRace /\ NoKeys /\ NoRequests /\ faults = FALSE

NextOwner ==
    \E p \in Procs :
        \/ StartDeductRequest(p)
        \/ DeductSvcGet(p) \/ DeductRepoGet(p) \/ DeductUpdate(p)

SpecOwner == InitOwner /\ [][NextOwner]_vars

DeleteToken(p) == StartDeleteToken(p) \/ DeleteTokenGet(p) \/ DeleteTokenDelete(p)

\* the credit tokens under redemption and deletion, every token unused and
\* created by "a" at the start
NextDelete ==
    \E p \in Procs : RedeemToken(p) \/ DeleteToken(p)

InitDelete == InitTwoAccounts /\ InitTokens /\ Quiet /\ NoRace /\ NoKeys /\ NoRequests /\ faults = TRUE

SpecDelete == InitDelete /\ [][NextDelete]_vars

(***************************************************************************)
(* Properties.                                                             *)
(***************************************************************************)
HasCredits(u) == FindCredits(u) # 0
Balance(u) == GetByUserID(u).credits
Done(p, op) == pc[p] = "done" /\ loc[p].op = op

\* C1: in every reachable state the stored balance of every account is >= 0,
\* whatever the interleaving of debits, credits and redemptions.
C1_BalanceNeverNegative ==
    \A i \in 1..Len(credits) : credits[i].credits >= 0

\* C2: when N concurrent debits of amount a against balance B have all
\* returned (the store having answered every call), exactly B \div a of them
\* succeeded, the others failed with INSUFFICIENT_CREDITS, and the balance
\* is B - a * (B \div a).
C2_RaceOutcome ==
    ((\A p \in Procs : Done(p, "Deduct")) /\ (\A p \in Procs : loc[p].res # ErrStore))
    => /\ Cardinality({p \in Procs : loc[p].res = Ok}) = race.bal \div race.amt
       /\ \A p \in Procs : loc[p].res \in {Ok, ErrInsufficientCredits}
       /\ Balance("a") = race.bal - race.amt * (race.bal \div race.amt)

\* p returns from the DeductCredits call it is in
DeductReturns(p) ==
    /\ pc[p] \in {"ded_svc_get", "ded_repo_get", "ded_update"}
    /\ pc'[p] = "done"

\* C3: a DeductCredits of a positive amount on an existing account that ran
\* alone, the store answering, fails with INSUFFICIENT_CREDITS iff the amount
\* exceeds the balance at call time, and then leaves the balance as it was;
\* otherwise it succeeds and the balance is lower by exactly the amount.
C3_DeductAlone ==
    [][\A p \in Procs :
         (/\ DeductReturns(p)
          /\ loc'[p].solo
          /\ loc[p].amt > 0
          /\ HasCredits(loc[p].user)
          /\ loc'[p].res # ErrStore)
         => LET u == loc[p].user
                a == loc[p].amt
                b == loc[p].bal0
            IN  /\ (loc'[p].res = ErrInsufficientCredits) <=> (a > b)
                /\ a > b => GetByUserID(u)'.credits = b
                /\ a <= b => /\ loc'[p].res = Ok
                             /\ GetByUserID(u)'.credits = b - a]_vars

\* a debit that ran alone succeeded, and a later one that ran alone was
\* refused for lack of credits
C3_Witness ==
    \E p, q \in Procs :
        /\ Done(p, "Deduct") /\ loc[p].solo /\ loc[p].res = Ok
        /\ Done(q, "Deduct") /\ loc[q].solo /\ loc[q].res = ErrInsufficientCredits

\* a RedeemToken call that has returned after running alone with the store
\* answering, for a redeemer that has a balance record
RedeemedAlone(p, t, n) ==
    /\ Done(p, "Redeem")
    /\ loc[p].tok = t
    /\ loc[p].nth = n
    /\ loc[p].solo
    /\ loc[p].res # ErrStore
    /\ HasCredits(loc[p].user)

\* C4: of two redemptions in sequence of the same unexpired token, the
\* first succeeds and marks the token used, the second fails with "token has
\* already been used", and the token's credits have been added exactly once.
C4_RedeemTwice ==
    \A t \in Tokens : \A p, q \in Procs :
        /\ (RedeemedAlone(p, t, 1) /\ ~tokens[t].expired)
           => /\ loc[p].res = Ok
              /\ tokens[t].isUsed
              /\ attempts[t] = 1 => granted[t] = tokens[t].credits
        /\ (RedeemedAlone(p, t, 1) /\ loc[p].res = Ok /\ RedeemedAlone(q, t, 2))
           => /\ loc[q].res = ErrTokenUsed
              /\ granted[t] = tokens[t].credits

\* both redemptions have returned, by different accounts
C4_Witness ==
    \E t \in Tokens : \E p, q \in Procs :
        /\ RedeemedAlone(p, t, 1) /\ loc[p].res = Ok
        /\ RedeemedAlone(q, t, 2) /\ loc[q].res = ErrTokenUsed
        /\ loc[p].user # loc[q].user

\* C5: whatever the interleaving of concurrent RedeemToken calls on a token,
\* at most one succeeds and the credits granted from the token never exceed
\* its credits value.
C5_RedeemedOnce ==
    \A t \in Tokens :
        /\ granted[t] <= tokens[t].credits
        /\ Cardinality({p \in Procs : Done(p, "Redeem") /\ loc[p].tok = t
                                          /\ loc[p].res = Ok}) <= 1

\* p returns from the CreateAPIKey call it is in
CreateKeyReturns(p) ==
    /\ pc[p] \in {"key_get_user", "key_delete", "key_insert"}
    /\ pc'[p] = "done"

\* C6: when CreateAPIKey returns successfully for an account that had a key,
\* exactly one key record exists for the account: the new one, and active.
C6_OneKeyAfterCreate ==
    [][\A p \in Procs :
         (CreateKeyReturns(p) /\ loc'[p].res = Ok /\ loc[p].cur > 0)
         => \E k \in apiKeys' :
               /\ KeysOf(loc[p].user)' = {k}
               /\ k.id = loc[p].nth
               /\ k.isActive]_vars

\* CreateAPIKey calls in flight for account u
CreatingFor(u) ==
    {p \in Procs : pc[p] \in {"key_get_user", "key_delete", "key_insert"}
                    /\ loc[p].user = u}

\* C7: whenever no CreateAPIKey call is in flight for an account, the account
\* has at most one key that is active and unexpired.
C7_AtMostOneLiveKey ==
    \A u \in Ids :
        CreatingFor(u) = {} => Cardinality({k \in KeysOf(u) : KeyLive(k)}) <= 1

\* the positions of a goroutine inside RegisterUser and GetOrCreateUser
ProvLabels ==
    {"reg_get", "reg_create_user", "reg_create_credits", "reg_rollback",
     "goc_get", "goc_create_user", "goc_create_credits", "goc_rollback"}

\* p returns from the RegisterUser or GetOrCreateUser call it is in
ProvisionReturns(p) == pc[p] \in ProvLabels /\ pc'[p] \notin ProvLabels

\* at most one user record and at most one balance record per identity
OneAccountEach ==
    \A e \in Ids :
        /\ Cardinality(UsersByEmail(e)) <= 1
        /\ Cardinality(UserDocs(e)) <= 1
        /\ Cardinality(CreditsDocs(e)) <= 1

\* C8: the first request of an identity with no account, running alone with
\* the store answering, creates exactly one account whose user id is the
\* e-mail, with a balance record of 10 credits; and in every state, concurrent
\* first requests included, there is at most one user record and at most one
\* balance record per identity.
C8_FirstRequest ==
    /\ []OneAccountEach
    /\ [][\A p \in Procs :
            (/\ ProvisionReturns(p)
             /\ req[p].fresh
             /\ loc[p].user = req[p].email
             /\ loc'[p].solo
             /\ loc'[p].res # ErrStore)
            => LET e == req[p].email IN
               /\ loc'[p].res = Ok
               /\ \E i \in 1..Len(users') :
                     /\ users'[i] = User(e, e)
                     /\ UsersByEmail(e)' = {i}
                     /\ UserDocs(e)' = {i}
               /\ \E j \in 1..Len(credits') :
                     /\ credits'[j] = CreditsDoc(e, InitialCredits)
                     /\ CreditsDocs(e)' = {j}]_vars

\* two first requests of the same unknown identity overlapped: one created
\* the account, the other was refused, and one user record and one balance
\* record exist
C8_Witness ==
    \E p, q \in Procs :
        /\ p # q
        /\ pc[p] = "done" /\ pc[q] = "done"
        /\ req[p].fresh /\ req[q].fresh /\ req[p].email = req[q].email
        /\ ~loc[p].solo /\ ~loc[q].solo
        /\ req[p].prov = Ok /\ req[q].prov = ErrUserAlreadyExists
        /\ Cardinality(UsersByEmail(req[p].email)) = 1
        /\ Cardinality(CreditsDocs(req[p].email)) = 1

\* C9: whenever no RegisterUser or GetOrCreateUser call is in flight, every
\* user record has a matching balance record.
C9_NoUserWithoutBalance ==
    (\A p \in Procs : pc[p] \notin ProvLabels)
    => \A i \in 1..Len(users) : CreditsDocs(users[i].userId) # {}

\* C10: the creditsUsed of every usage record is the amount its request
\* debited from the account.
C10_RecordedIsDebited ==
    \A i \in 1..Len(usage) : usage[i].creditsUsed = usage[i].debited

\* the usage records a request has handed to the recorder
RecordsOf(p) == {i \in 1..Len(usage) : usage[i].by = p}

\* a request to one of the metered endpoints that has got its response
Served(p) == pc[p] = "done" /\ req[p].svc \in Services

\* C11: every request to a metered endpoint that has got its response has
\* started exactly one usage-record write, whichever branch it ended in.
C11_OneRecordPerRequest ==
    \A p \in Procs : Served(p) => Cardinality(RecordsOf(p)) = 1

\* the request of p ended with an authentication failure, a body that does
\* not parse or validate, or an insufficient balance
Refused(p) ==
    /\ Served(p)
    /\ \/ req[p].status = 401
       \/ req[p].status = 400 /\ req[p].body \in {"error", "insufficient"}

\* C12: a metered request that ends with an authentication failure, a body
\* parsing or validation failure or an insufficient-balance failure has not
\* invoked the upstream operation and has issued no debit, and the step
\* that refuses it leaves the balances as they are.
C12_RefusedUntouched ==
    /\ [](\A p \in Procs :
            Refused(p) => /\ req[p].reply = "none"
                          /\ req[p].paid = 0
                          /\ \A i \in 1..Len(req[p].ev) :
                                req[p].ev[i] \notin {"upstream", "debit", "debited"})
    /\ [][\A p \in Procs : (~Served(p) /\ Refused(p)') => credits' = credits]_vars

\* a request was refused for its balance while another request of the same
\* account was served and charged
C12_Witness ==
    \E p, q \in Procs :
        /\ Refused(p) /\ req[p].body = "insufficient"
        /\ Served(q) /\ req[q].status = 200 /\ req[q].paid > 0
        /\ req[q].email = req[p].email

\* p reads a balance and tests it
ChecksBalance(p) ==
    /\ pc[p] = "m_balance" /\ pc'[p] # "m_balance"
    /\ GetByUserID(loc[p].user).err = ""
    /\ req'[p].status # 500

\* C13: when the balance read at the balance check is lower than the cost of
\* the operation, the request ends with 400 INSUFFICIENT_CREDITS, the
\* balances are unchanged, and the request has exactly one usage record,
\* with creditsUsed = 0 and success = false.
C13_InsufficientRefused ==
    [][\A p \in Procs :
         (ChecksBalance(p) /\ Balance(loc[p].user) < Cost(req[p].svc))
         => /\ Refused(p)' /\ req'[p].body = "insufficient"
            /\ credits' = credits
            /\ \E i \in 1..Len(usage') :
                  /\ RecordsOf(p)' = {i}
                  /\ usage'[i].creditsUsed = 0 /\ ~usage'[i].success]_vars

\* the body of a 400 for an upstream answer with success = false: the
\* translated error, or the upstream body for a caller with an API key
FailureBody(p) == IF req[p].auth = "apikey" THEN "raw" ELSE "translated"

\* C14: a face detection request that passed the balance check and whose
\* upstream answered with a well-formed success = false has taken exactly
\* the cost from the account, got a 400 with the translated error, and has
\* exactly one usage record, with creditsUsed = the cost and success = true.
C14_FailureCharged ==
    \A p \in Procs :
        (Served(p) /\ req[p].svc = "face-detection" /\ req[p].reply = "failure")
        => /\ req[p].paid = Cost(req[p].svc)
           /\ req[p].status = 400 /\ req[p].body = FailureBody(p)
           /\ \E i \in 1..Len(usage) :
                 /\ RecordsOf(p) = {i}
                 /\ usage[i].creditsUsed = Cost(req[p].svc) /\ usage[i].success

\* C15: a request whose upstream answered with a well-formed success = false
\* gets a 400 with the translated error or, for a caller with an API key,
\* the upstream body; it never gets a 200.
C15_SemanticFailureIs400 ==
    \A p \in Procs :
        (Served(p) /\ req[p].reply = "failure")
        => /\ req[p].status = 400
           /\ req[p].body \in {"translated", FailureBody(p)}

\* the request of p has issued no DeductCredits call
NoDebit(p) ==
    /\ req[p].paid = 0
    /\ \A i \in 1..Len(req[p].ev) : req[p].ev[i] \notin {"debit", "debited"}

\* the request of p has one usage record, with creditsUsed = 0 and
\* success = false
RecordedUncharged(p) ==
    \E i \in 1..Len(usage) :
        /\ RecordsOf(p) = {i}
        /\ usage[i].creditsUsed = 0 /\ ~usage[i].success

\* C16: a request whose upstream call ended with a transport or timeout
\* error has issued no debit, whatever the charge policy of the operation,
\* and its usage record has creditsUsed = 0 and success = false.
C16_TransportErrorUncharged ==
    \A p \in Procs :
        (Served(p) /\ req[p].reply = "transport") => NoDebit(p) /\ RecordedUncharged(p)

\* C17: a request whose upstream reply could not be parsed as the response
\* shape is handled as upstream-unavailable, like a transport error, not as
\* a semantic failure: it is answered 500 and no debit is issued for it.
C17_UnparsedUncharged ==
    \A p \in Procs :
        (Served(p) /\ req[p].reply = "garbled")
        => /\ NoDebit(p)
           /\ req[p].status = 500 /\ req[p].body = "error"

\* the DeductCredits call of the request of p returned an error
DebitFailed(p) == req[p].settle \notin {"none", Ok}

\* C18: a request whose debit failed after the upstream had returned a
\* response, a successful one or a semantic failure, ends with the 500 that
\* says the operation completed but the credits could not be deducted, and
\* its usage record has creditsUsed = 0 and success = false.
C18_SettlementFailureIs500 ==
    \A p \in Procs :
        (Served(p) /\ DebitFailed(p))
        => /\ req[p].status = 500 /\ req[p].body = "unsettled"
           /\ RecordedUncharged(p)

\* in the sequence s every b has an a somewhere before it
Before(s, a, b) ==
    \A j \in 1..Len(s) : s[j] = b => \E i \in 1..(j - 1) : s[i] = a

Happened(p, e) == \E i \in 1..Len(req[p].ev) : req[p].ev[i] = e

\* C19: within one metered request the upstream call has returned before a
\* debit is issued, and the debit, when one is issued, is back before the
\* usage record is handed to the recorder; and a balance is only ever
\* lowered for a request whose upstream call has returned and whose usage
\* record is not handed over yet.
C19_UpstreamDebitRecord ==
    /\ [](\A p \in Procs :
            /\ Before(req[p].ev, "upstream", "debit")
            /\ Before(req[p].ev, "debit", "debited")
            /\ Happened(p, "debit") => Before(req[p].ev, "debited", "record")
            /\ pc[p] \in {"ded_svc_get", "ded_repo_get", "ded_update"}
                  => Happened(p, "upstream") /\ ~Happened(p, "record"))
    /\ [][\A p \in Procs :
            (pc[p] = "ded_update" /\ pc'[p] # "ded_update" /\ credits' # credits)
            => Happened(p, "upstream") /\ ~Happened(p, "record")]_vars

\* a request went through the upstream call, the debit and the record, in
\* that order, and was charged
C19_Witness ==
    \E p \in Procs :
        /\ Served(p) /\ req[p].status = 200 /\ req[p].paid = Cost(req[p].svc)
        /\ req[p].ev = <<"upstream", "debit", "debited", "record">>

\* C20: a request that was cancelled before its upstream call had returned
\* a response has received no upstream response, has issued no debit, and
\* has its usage record all the same.
C20_CancelledRecorded ==
    \A p \in Procs :
        (Served(p) /\ req[p].cancelled)
        => /\ req[p].reply \in {"none", "transport"}
           /\ NoDebit(p)
           /\ Cardinality(RecordsOf(p)) = 1

\* the write of the i-th usage record ends in this step
WriteEnds(i) == i <= Len(usage') /\ usage'[i].written # usage[i].written

\* C21: the end of a usage-record write, stored or failed or timed out,
\* changes no response, no handler's position and no balance; and a handler
\* that has not responded can take its next step whatever the state of the
\* writes, its own included.
C21_RecordingDetached ==
    /\ [][\A i \in 1..Len(usage) :
            WriteEnds(i) => UNCHANGED <<pc, loc, req, users, credits>>]_vars
    /\ [](\A p \in Procs : InFlight(p) => ENABLED HandlerStep(p))

\* a request got its 200 and its debit while the write of its usage record
\* had failed, and another while the write was still going on
C21_Witness ==
    \E i, j \in 1..Len(usage) :
        /\ usage[i].written = "failed" /\ usage[j].written = "pending"
        /\ Served(usage[i].by) /\ req[usage[i].by].status = 200
        /\ Served(usage[j].by) /\ req[usage[j].by].status = 200

\* C22: the shape of the success body and of the semantic-failure body
\* depends only on the authentication method: the upstream shape for a
\* caller with an API key, the envelope forms for a caller with a signed
\* token; and a request answered with success has paid the cost.
C22_ShapeByAuthMethod ==
    \A p \in Procs :
        /\ (Served(p) /\ req[p].reply = "failure" /\ req[p].status = 400)
           => req[p].body = IF req[p].auth = "apikey" THEN "raw" ELSE "translated"
        /\ (Served(p) /\ req[p].reply = "success" /\ req[p].status = 200)
           => /\ req[p].body = IF req[p].auth = "apikey" THEN "raw" ELSE "envelope"
              /\ req[p].paid = Cost(req[p].svc)

\* C23: matching is case-insensitive: a message and the same message in
\* lower case resolve to the same entry of the table.
C23_CaseInsensitive ==
    (tr.got # "none" /\ tr.low # "none") => tr.got = tr.low

\* C24: an exact match of the trimmed, lower-cased message returns the entry
\* of that key, whatever other keys the message contains; otherwise, when
\* the message contains keys, the entry of one of them is returned;
\* otherwise the fallback GEN_UNKNOWN is returned.
C24_ExactThenSubstring ==
    LET l == ToLower(TrimSpace(tr.msg)) IN
    tr.got # "none"
    => IF l \in Keys THEN tr.got = Entry(l)
       ELSE IF \E k \in Keys : Contains(l, k)
            THEN \E k \in Keys : Contains(l, k) /\ tr.got = Entry(k)
            ELSE tr.got = GenUnknown

\* a message in capitals that is a key and contains another key was
\* translated to the entry of the key it is
C24_Witness ==
    /\ tr.msg = <<"INTERNAL", "SERVER", "ERROR">>
    /\ tr.got = "GEN_004"

\* the request of p presented a key and the middleware let it through
Authenticated(p) == loc[p].op = "ValidateKey" /\ loc[p].res = Ok

\* the key the account "a" had at the start
OldKey == generateAPIKey(0).apiKey

\* a call of "a" that has returned success and after which the old key should
\* be gone: a revocation, the creation of a new key, or a deactivation that
\* no activation accompanies
Superseded ==
    \E q \in Procs :
        /\ pc[q] = "done" /\ loc[q].res = Ok /\ loc[q].user = "a"
        /\ \/ loc[q].op \in {"RevokeKey", "CreateKey"}
           \/ /\ loc[q].op = "UpdateKey" /\ loc[q].act = "false"
              /\ \A r \in Procs : ~(loc[r].op = "UpdateKey" /\ loc[r].act = "true")

\* C25: a request presenting an API key is let through only if, when it is
\* validated, a stored key document with the same hash is active and not
\* expired; and once a revocation, a replacing creation or a deactivation of
\* the account has succeeded, no request presenting the old key is let through
C25_OnlyLiveKeys ==
    [][\A p \in Procs :
          (pc[p] = "key_validate" /\ Authenticated(p)') =>
              /\ \E k \in apiKeys : k.keyHash = hashAPIKey(loc[p].key) /\ KeyLive(k)
              /\ ~(loc[p].key = OldKey /\ Superseded)]_vars

\* C29: the update a successful validation starts, once it completes with the
\* store available, has increased the usageCount of the key by one and set
\* lastUsedAt
C29_LastUseCounted ==
    [][\A p \in Procs :
          (pc[p] = "key_touch" /\ pc'[p] = "done" /\ ~loc'[p].swallowed) =>
              \A k \in apiKeys :
                  k.keyHash = hashAPIKey(loc[p].key) =>
                      \E j \in apiKeys' :
                          /\ j.id = k.id
                          /\ j.usageCount = k.usageCount + 1
                          /\ j.lastUsed]_vars
\* the call of p to DeleteToken returns res at this step
DeleteReturns(p, res) ==
    loc[p].op = "DeleteToken" /\ InFlight(p) /\ pc'[p] = "done" /\ loc'[p].res = res

\* C28: DeleteToken removes a token only for its creator and only while it
\* is unused; a caller who is not the creator gets 403 and a used token 400,
\* the token record unchanged in both cases; a token marked used is never
\* deleted
C28_DeleteOnlyOwnUnused ==
    [][/\ \A t \in Tokens :
            (tokens[t].exists /\ ~tokens'[t].exists) =>
                /\ ~tokens[t].isUsed
                /\ \E p \in Procs :
                      DeleteReturns(p, Ok) /\ loc[p].tok = t
                          /\ loc[p].user = tokens[t].createdBy
       /\ \A p \in Procs :
            (pc[p] = "del_get" /\ pc'[p] # "del_get" /\ loc[p].named
                /\ tokens[loc[p].tok].exists /\ loc'[p].res # ErrStore) =>
                /\ tokens[loc[p].tok].createdBy # loc[p].user => DeleteReturns(p, ErrForbidden)
                /\ (tokens[loc[p].tok].createdBy = loc[p].user /\ tokens[loc[p].tok].isUsed)
                      => DeleteReturns(p, ErrBadRequest)
                /\ DeleteReturns(p, ErrForbidden) \/ DeleteReturns(p, ErrBadRequest)
                      => tokens' = tokens]_vars
\* the request of p came in on a route, and the middleware answered it
Routed(p) == req[p].svc \in Routes
Turned(p) == Routed(p) /\ loc[p].op = "Refused"

\* C26: a signed token whose e-mail claim is empty is answered 401 on every
\* route, the operation routes included: no handler runs with an empty
\* resolved e-mail
C26_EmptyEmailRejected ==
    \A p \in Procs :
        Routed(p) =>
            /\ (verifyKindeToken(req[p].cred) /\ req[p].cred.email = EmptyId)
                   => Turned(p) /\ req[p].status = 401
            /\ ~Turned(p) => req[p].email # EmptyId
\* the credential is an API key, and one the store holds as active
HoldsKey(c) == HasPrefix(c.token, KeyPrefix)
HoldsLiveKey(c) == HoldsKey(c) /\ GetActiveByHash(hashAPIKey(c.token)) # {}

Created(p) == Done(p, "CreateKey") /\ loc[p].res = Ok

\* the document that the call of q created is stored as it was created, but
\* for its last use
Untouched(q) ==
    \E k \in apiKeys :
        k.id = loc[q].nth /\ k.userId = loc[q].user /\ k.isActive /\ k.expires = loc[q].exp

IsHex(ch) == \E i \in 1..HexBase : HexDigits[i] = ch

C31_OneCost ==
    [][\A p \in Procs :
         LET svc == req[p].svc IN
         /\ pc[p] = "m_balance" =>
               (req'[p].body = "insufficient" => Balance(loc[p].user) < Cost(svc))
         /\ pc[p] \in {"m_settled", "m_failure_charged"} =>
               /\ req'[p].paid \in {0, Cost(svc)}
               /\ \A i \in RecordsOf(p)' \ RecordsOf(p) :
                     usage'[i].creditsUsed \in {0, Cost(svc)}]_vars

\* p returns from the AddCredits call it is in
AddReturns(p) == pc[p] \in {"add_svc_get", "add_update"} /\ pc'[p] = "done"

\* C32: the balance a successful DeductCredits or AddCredits returns is the
\* stored balance of the account right after the update of that call,
\* whatever runs concurrently on the account.
C32_ReturnedBalanceIsStored ==
    [][\A p \in Procs :
         ((DeductReturns(p) \/ AddReturns(p)) /\ loc'[p].res = Ok)
         => loc'[p].bal = Balance(loc[p].user)']_vars

\* every RedeemToken call on t so far has returned, and returned an error
OnlyFailedRedemptions(t) ==
    /\ attempts[t] > 0
    /\ \A p \in Procs :
          (loc[p].op = "Redeem" /\ loc[p].tok = t)
          => (pc[p] = "done" /\ loc[p].res # Ok)

\* C33: RedeemToken is all-or-nothing: when the calls on a token have all
\* returned an error, no credits have been added from the token and the token
\* is as unused as before.
C33_RedeemAllOrNothing ==
    \A t \in Tokens :
        OnlyFailedRedemptions(t) => (granted[t] = 0 /\ ~tokens[t].isUsed)

\* a RedeemToken call on t has returned success
RedeemSucceeded(t) ==
    \E p \in Procs : Done(p, "Redeem") /\ loc[p].tok = t /\ loc[p].res = Ok

\* a DeleteToken call on t has returned success
DeleteSucceeded(t) ==
    \E p \in Procs : Done(p, "DeleteToken") /\ loc[p].tok = t /\ loc[p].res = Ok

\* C34: however RedeemToken and DeleteToken interleave on an unused token,
\* at most one of them takes effect: no credits have been granted from a
\* token that DeleteToken removed, and the two never both succeed.
C34_RedeemOrDelete ==
    \A t \in Tokens :
        /\ ~tokens[t].exists => granted[t] = 0
        /\ ~(RedeemSucceeded(t) /\ DeleteSucceeded(t))

\* C35: MapError is deterministic: two calls with the same message return the
\* same entry, also for a message that contains more than one key.
C35_SameMessageSameEntry ==
    (tr.msg = ToLower(tr.msg) /\ tr.got # "none" /\ tr.low # "none")
    => tr.got = tr.low

\* C36: a caller that is not an admin reduces only the balance of its own
\* account: every step that lowers the balance of an account is the debit of
\* a request whose resolved identity is that account, or an admin.
C36_OnlyOwnBalance ==
    [][\A u \in Ids :
         Balance(u)' < Balance(u)
         => \E p \in Procs :
               /\ pc[p] = "ded_update" /\ pc'[p] = "done"
               /\ loc[p].user = u
               /\ req[p].email = u \/ req[p].admin]_vars

\* what the calls of AddCredits (sign 1) or DeductCredits (sign -1) on u that
\* have returned success among the goroutines 1..n have applied
RECURSIVE Applied(_, _, _, _)
Applied(op, u, sign, n) ==
    IF n = 0 THEN 0
    ELSE Applied(op, u, sign, n - 1)
         + (IF Done(n, op) /\ loc[n].user = u /\ loc[n].res = Ok
            THEN sign * loc[n].amt ELSE 0)

\* the credits the redemptions have applied, from the tokens 1..t
RECURSIVE Redeemed(_)
Redeemed(t) == IF t = 0 THEN 0 ELSE Redeemed(t - 1) + granted[t]

\* C37: the stored balance of the account is its starting balance of 10,
\* plus the credits AddCredits and the redemptions have applied, minus the
\* debits that returned success, whatever the interleaving: no update is lost.
C37_LedgerConserved ==
    Balance("a") = InitialCredits + Applied("Add", "a", 1, NProcs) + Redeemed(MaxTokens)
                      + Applied("Deduct", "a", -1, NProcs)

\* a debit and a credit of the account that overlapped have both been applied
C37_Witness ==
    \E p, q \in Procs :
        /\ Done(p, "Deduct") /\ loc[p].res = Ok /\ ~loc[p].solo
        /\ Done(q, "Add") /\ loc[q].res = Ok /\ ~loc[q].solo

\* q is creating the account of u: it has stored the user record and not yet
\* the balance record
Provisioning(q, u) ==
    pc[q] \in {"reg_create_credits", "goc_create_credits"} /\ loc[q].user = u

\* C38: a request for an identity that a concurrent request is provisioning
\* never fails for that: it is not answered 500 because the other request
\* created the user first, and not CREDITS_NOT_FOUND because it saw the user
\* record before the balance record was stored.
C38_ProvisioningUnseen ==
    [][\A p \in Procs :
         /\ (pc[p] = "m_registered" /\ pc'[p] = "done")
            => req'[p].prov # ErrUserAlreadyExists
         /\ (pc[p] = "m_balance" /\ pc'[p] = "done" /\ req'[p].status = 404)
            => ~\E q \in Procs \ {p} : Provisioning(q, loc[p].user)]_vars

\* C39: CreateAPIKey stores the new key only after the previous keys of the
\* account have been removed: a call whose DeleteByUserID failed returns an
\* error and leaves the key records of the account as they were.
C39_NoKeyAfterFailedDelete ==
    [][\A p \in Procs :
         (CreateKeyReturns(p) /\ loc[p].swallowed)
         => /\ loc'[p].res # Ok
            /\ KeysOf(loc[p].user)' = KeysOf(loc[p].user)]_vars
====
